---- MODULE Spec2Model ----
(***************************************************************************)
(* Model of clinica/bids/bids_utils.py: the rescan filter, the correction  *)
(* selector, the fieldmap converter, the single-file converters (T1,       *)
(* FLAIR, fMRI) and the DWI merger.                                        *)
(*                                                                         *)
(* Strings are sequences of one-character strings, so that the substring   *)
(* test ('in'), split(os.sep), slicing and str() are computed and not      *)
(* assumed.  Calls to the logging module are not part of the state.        *)
(***************************************************************************)
EXTENDS Integers, Sequences, FiniteSets, TLC

VARIABLES
    call,          \* the last call: operation, arguments, return value
    corr_dir,      \* choose_correction: the directory 'dir'
    corr_listing,  \* choose_correction: entries of 'dir' in listing order
    in_listing,    \* convert_fieldmap: files below folder_input, listing order
    out_exists,    \* does folder_output exist
    out_files,     \* file name -> content, in folder_output
    in_tree,       \* convert_flair, convert_fmri, merge_DTI: the folders of
                   \* folder_input with their files, in listing order
    worker,        \* concurrent conversions: each worker's call and position
    fileinput_state, \* fileinput._state: the worker whose FileInput it is, 0
                     \* for None
    caps           \* a CAPSInput object with the files it looks for

vars ==
    <<call, corr_dir, corr_listing, in_listing, out_exists, out_files, in_tree,
      worker, fileinput_state, caps>>

(***************************************************************************)
(* Bounds.                                                                 *)
(***************************************************************************)
MaxLen == 3        \* longest list_path given to remove_rescan
MaxEntries == 3    \* most entries in the directory of choose_correction
MaxPrio == 2       \* longest priority list to_consider
MaxFiles == 3      \* most files below folder_input
MaxVol == 3        \* largest 4th dimension of an image header

(***************************************************************************)
(* Strings.                                                                *)
(***************************************************************************)
sep == "/"

\* Python: t in s, for strings.
IsSubstr(t, s) ==
    \E i \in 0..(Len(s) - Len(t)) : SubSeq(s, i + 1, i + Len(t)) = t

\* Python: s.endswith(t)
EndsWith(s, t) ==
    Len(s) >= Len(t) /\ SubSeq(s, Len(s) - Len(t) + 1, Len(s)) = t

\* Python: s.split(os.sep)[-1], the part after the last separator.
RECURSIVE LastSegment(_)
LastSegment(s) ==
    IF s = <<>> THEN <<>>
    ELSE IF s[Len(s)] = sep THEN <<>>
    ELSE LastSegment(SubSeq(s, 1, Len(s) - 1)) \o <<s[Len(s)]>>

\* os.path.join(a, b) for a relative component b.
PathJoin(a, b) ==
    IF a = <<>> THEN b
    ELSE IF a[Len(a)] = sep THEN a \o b
    ELSE a \o <<sep>> \o b

DigitChars == <<"0", "1", "2", "3", "4", "5", "6", "7", "8", "9">>

\* Python: str(n) for n >= 0.
RECURSIVE Str(_)
Str(n) ==
    IF n < 10 THEN <<DigitChars[n + 1]>>
    ELSE Str(n \div 10) \o <<DigitChars[(n % 10) + 1]>>

\* Return values: Python returns an int, a string or None.
RetInt(n) == [kind |-> "int", val |-> n]
RetStr(s) == [kind |-> "str", val |-> s]
RetNone == [kind |-> "none", val |-> 0]
RetRaise(e) == [kind |-> "raise", val |-> e]

IsInt(r, n) == r.kind = "int" /\ r.val = n
IsStr(r, s) == r.kind = "str" /\ r.val = s

(***************************************************************************)
(* remove_rescan                                                           *)
(***************************************************************************)
KwRescan == <<"r", "e", "s", "c", "a", "n">>

HasRescan(s) == IsSubstr(KwRescan, s)

\* A filter that looks for the keyword only at the start of the path.
HasRescanPrefixOnly(s) ==
    Len(s) >= Len(KwRescan) /\ SubSeq(s, 1, Len(KwRescan)) = KwRescan

RECURSIVE remove_rescan_prefix(_)
remove_rescan_prefix(list_path) ==
    IF list_path = <<>> THEN <<>>
    ELSE IF ~HasRescanPrefixOnly(Head(list_path))
         THEN <<Head(list_path)>> \o remove_rescan_prefix(Tail(list_path))
         ELSE remove_rescan_prefix(Tail(list_path))

\* no_resc_lst = [s for s in list_path if 'rescan' not in s]
RECURSIVE remove_rescan(_)
remove_rescan(list_path) ==
    IF list_path = <<>> THEN <<>>
    ELSE IF ~HasRescan(Head(list_path))
         THEN <<Head(list_path)>> \o remove_rescan(Tail(list_path))
         ELSE remove_rescan(Tail(list_path))

(***************************************************************************)
(* glob: the entries of a directory whose name matches '*' + mod + '*',    *)
(* as paths, in listing order.                                             *)
(***************************************************************************)
RECURSIVE GlobContains(_, _, _)
GlobContains(dir, listing, mod) ==
    IF listing = <<>> THEN <<>>
    ELSE IF IsSubstr(mod, Head(listing))
         THEN <<PathJoin(dir, Head(listing))>> \o GlobContains(dir, Tail(listing), mod)
         ELSE GlobContains(dir, Tail(listing), mod)

(***************************************************************************)
(* choose_correction                                                       *)
(***************************************************************************)
\* The first token of to_consider, from index i on, that some candidate
\* contains; 0 when there is none.
RECURSIVE ScanPriority(_, _, _)
ScanPriority(to_consider, correction_list, i) ==
    IF i > Len(to_consider) THEN RetInt(0)
    ELSE IF \E k \in 1..Len(correction_list) :
                IsSubstr(to_consider[i], correction_list[k])
         THEN RetStr(to_consider[i])
         ELSE ScanPriority(to_consider, correction_list, i + 1)

\* A selector that takes the first segment of the single candidate's path.
FirstSegment(s) ==
    IF \E i \in 1..Len(s) : s[i] = sep
    THEN SubSeq(s, 1, (CHOOSE i \in 1..Len(s) :
                          s[i] = sep /\ \A j \in 1..(i - 1) : s[j] # sep) - 1)
    ELSE s

\* A selector that lets the first candidate decide: the first token the
\* first candidate contains, else the scan of the remaining candidates.
RECURSIVE ScanCandidatesFirst(_, _, _)
ScanCandidatesFirst(to_consider, correction_list, k) ==
    IF k > Len(correction_list) THEN RetInt(0)
    ELSE IF \E i \in 1..Len(to_consider) :
                IsSubstr(to_consider[i], correction_list[k])
         THEN RetStr(to_consider[
                  CHOOSE i \in 1..Len(to_consider) :
                      /\ IsSubstr(to_consider[i], correction_list[k])
                      /\ \A j \in 1..(i - 1) :
                            ~IsSubstr(to_consider[j], correction_list[k])])
         ELSE ScanCandidatesFirst(to_consider, correction_list, k + 1)

choose_correction_candfirst(dir, listing, to_consider, mod) ==
    LET correction_list == remove_rescan(GlobContains(dir, listing, mod))
    IN  IF Len(correction_list) = 0 THEN RetInt(-1)
        ELSE IF Len(correction_list) = 1
             THEN RetStr(LastSegment(correction_list[1]))
             ELSE ScanCandidatesFirst(to_consider, correction_list, 1)

choose_correction_firstseg(dir, listing, to_consider, mod) ==
    LET correction_list == remove_rescan(GlobContains(dir, listing, mod))
    IN  IF Len(correction_list) = 0 THEN RetInt(-1)
        ELSE IF Len(correction_list) = 1
             THEN RetStr(FirstSegment(correction_list[1]))
             ELSE ScanPriority(to_consider, correction_list, 1)

choose_correction_swapped(dir, listing, to_consider, mod) ==
    LET correction_list == remove_rescan(GlobContains(dir, listing, mod))
    IN  IF Len(correction_list) = 0 THEN RetInt(0)
        ELSE IF Len(correction_list) = 1
             THEN RetStr(LastSegment(correction_list[1]))
             ELSE LET r == ScanPriority(to_consider, correction_list, 1)
                  IN  IF r.kind = "int" THEN RetInt(-1) ELSE r

\* 'listing' stands for the content of 'dir' that glob reads.
choose_correction(dir, listing, to_consider, mod) ==
    LET correction_list == remove_rescan(GlobContains(dir, listing, mod))
    IN  IF Len(correction_list) = 0 THEN RetInt(-1)
        ELSE IF Len(correction_list) = 1
             THEN RetStr(LastSegment(correction_list[1]))
             ELSE ScanPriority(to_consider, correction_list, 1)

(***************************************************************************)
(* Inputs of the rescan filter and of the correction selector.             *)
(***************************************************************************)
SeqsUpTo(S, n) == UNION {[1..k -> S] : k \in 0..n}

DistinctSeqsUpTo(S, n) ==
    {q \in SeqsUpTo(S, n) : \A i, j \in 1..Len(q) : i # j => q[i] # q[j]}

\* a/T1, a/rescan, rescan/b, a/Rescan, resca/n
PathPool ==
    { <<"a", "/", "T", "1">>,
      <<"a", "/", "r", "e", "s", "c", "a", "n">>,
      <<"r", "e", "s", "c", "a", "n", "/", "b">>,
      <<"a", "/", "R", "e", "s", "c", "a", "n">>,
      <<"r", "e", "s", "c", "a", "/", "n">> }

PathLists == SeqsUpTo(PathPool, MaxLen)

\* d, N4, rescan
DirPool ==
    { <<"d">>, <<"N", "4">>, <<"r", "e", "s", "c", "a", "n">> }

\* T1, T1N4, GWT1, T1rescan, x
NamePool ==
    { <<"T", "1">>,
      <<"T", "1", "N", "4">>,
      <<"G", "W", "T", "1">>,
      <<"T", "1", "r", "e", "s", "c", "a", "n">>,
      <<"x">> }

\* N4, GW, N3
TokenPool == { <<"N", "4">>, <<"G", "W">>, <<"N", "3">> }

ModPool == { <<"T", "1">> }

PrioLists == SeqsUpTo(TokenPool, MaxPrio)

EmptyDir == [x \in {} |-> x]

NoCall == [op |-> "none"]

(***************************************************************************)
(* Specification of remove_rescan: the argument is drawn in the action.    *)
(***************************************************************************)
InitRescan ==
    /\ call = NoCall
    /\ corr_dir = <<>>
    /\ corr_listing = <<>>
    /\ in_listing = <<>>
    /\ out_exists = FALSE
    /\ out_files = EmptyDir
    /\ in_tree = <<>>
    /\ worker = <<>>
    /\ fileinput_state = 0
    /\ caps = <<>>

RemoveRescanCall ==
    /\ \E l \in PathLists :
          call' = [op |-> "remove_rescan", list_path |-> l,
                   ret |-> remove_rescan(l)]
    /\ UNCHANGED <<corr_dir, corr_listing, in_listing, out_exists, out_files, in_tree,
                 worker, fileinput_state, caps>>

NextRescan == RemoveRescanCall

SpecRescan == InitRescan /\ [][NextRescan]_vars

(***************************************************************************)
(* Specification of choose_correction: the directory it globs is drawn in  *)
(* Init, the priority list and the modality in the action.                 *)
(***************************************************************************)
InitSel ==
    /\ call = NoCall
    /\ corr_dir \in DirPool
    /\ corr_listing \in DistinctSeqsUpTo(NamePool, MaxEntries)
    /\ in_listing = <<>>
    /\ out_exists = FALSE
    /\ out_files = EmptyDir
    /\ in_tree = <<>>
    /\ worker = <<>>
    /\ fileinput_state = 0
    /\ caps = <<>>

ChooseCorrectionCall ==
    /\ \E tc \in PrioLists, mod \in ModPool :
          call' = [op |-> "choose_correction", to_consider |-> tc, mod |-> mod,
                   ret |-> choose_correction(corr_dir, corr_listing, tc, mod)]
    /\ UNCHANGED <<corr_dir, corr_listing, in_listing, out_exists, out_files, in_tree,
                 worker, fileinput_state, caps>>

NextSel == ChooseCorrectionCall

SpecSel == InitSel /\ [][NextSel]_vars

(***************************************************************************)
(* get_bids_suff                                                           *)
(***************************************************************************)
get_bids_suff(mod) ==
    CASE mod = "T1" -> <<"_", "T", "1", "w">>
      [] mod = "T2" -> <<"_", "T", "2", "w">>
      [] mod = "Flair" -> <<"_", "F", "L", "A", "I", "R">>
      [] mod = "SingleMapPh" -> <<"_", "p", "h", "a", "s", "e", "d", "i", "f", "f">>
      [] mod = "MultiMapPh" -> <<"_", "p", "h", "a", "s", "e">>
      [] mod = "Map" -> <<"_", "m", "a", "g", "n", "i", "t", "u", "d", "e">>
      [] mod = "fMRI" -> <<"_", "b", "o", "l", "d">>
      [] mod = "dwi" -> <<"_", "d", "w", "i">>

NiiGz == <<".", "n", "i", "i", ".", "g", "z">>

(***************************************************************************)
(* The file system seen by convert_fieldmap.                               *)
(*                                                                         *)
(* Below folder_input: a listing of files, each [folder, file, vols], vols *)
(* being header['dim'][4] of the image.  folder_output: a flag for the     *)
(* directory and a function from file name to content; a content is        *)
(* [src, vol]: the image it was taken from and the 0-based volume, or -1   *)
(* for a copy of the whole image.                                          *)
(***************************************************************************)
PathOf(folder_input, e) == PathJoin(PathJoin(folder_input, e.folder), e.file)

\* glob(path.join(folder_input, '*' + tag + '*', '*.nii.gz'))
RECURSIVE GlobTagged(_, _, _)
GlobTagged(folder_input, listing, tag) ==
    IF listing = <<>> THEN <<>>
    ELSE IF IsSubstr(tag, Head(listing).folder) /\ EndsWith(Head(listing).file, NiiGz)
         THEN <<PathOf(folder_input, Head(listing))>>
                  \o GlobTagged(folder_input, Tail(listing), tag)
         ELSE GlobTagged(folder_input, Tail(listing), tag)

\* glob(path.join(folder_input, fixed, '*.nii.gz'))
RECURSIVE GlobFixed(_, _, _)
GlobFixed(folder_input, listing, fixed) ==
    IF listing = <<>> THEN <<>>
    ELSE IF Head(listing).folder = fixed /\ EndsWith(Head(listing).file, NiiGz)
         THEN <<PathOf(folder_input, Head(listing))>>
                  \o GlobFixed(folder_input, Tail(listing), fixed)
         ELSE GlobFixed(folder_input, Tail(listing), fixed)

\* nib.load(p).header['dim'][4]
HeaderDim4(folder_input, listing, p) ==
    LET k == CHOOSE k \in 1..Len(listing) : PathOf(folder_input, listing[k]) = p
    IN  listing[k].vols

Put(files, n, c) ==
    [x \in (DOMAIN files) \cup {n} |-> IF x = n THEN c ELSE files[x]]

Remove(files, n) == [x \in (DOMAIN files) \ {n} |-> files[x]]

\* shutil.copy(src, folder_output/n)
CopyInto(files, src, n) == Put(files, n, [src |-> src, vol |-> -1])

\* '%04d' % k, the numbering of fslsplit
Pad4(k) ==
    IF k < 10 THEN <<"0", "0", "0">> \o Str(k)
    ELSE IF k < 100 THEN <<"0", "0">> \o Str(k)
    ELSE IF k < 1000 THEN <<"0">> \o Str(k)
    ELSE Str(k)

\* fslsplit src folder_output/base: one file base%04d.nii.gz per volume.
RECURSIVE FslSplit(_, _, _, _)
FslSplit(files, src, vols, base) ==
    IF vols = 0 THEN files
    ELSE Put(FslSplit(files, src, vols - 1, base),
             base \o Pad4(vols - 1) \o NiiGz,
             [src |-> src, vol |-> vols - 1])

\* os.rename inside folder_output; st is [files, err].
Rename(st, old, new) ==
    IF st.err # "" THEN st
    ELSE IF old \notin DOMAIN st.files
         THEN [files |-> st.files, err |-> "FileNotFoundError"]
         ELSE [files |-> Put(Remove(st.files, old), new, st.files[old]), err |-> ""]

\* A rename that strips only the extension, not the number of fslsplit.
DropLast7(s) == SubSeq(s, 1, IF Len(s) > 7 THEN Len(s) - 7 ELSE 0)

\* old_mag_name[:-11]
DropLast11(s) == SubSeq(s, 1, IF Len(s) > 11 THEN Len(s) - 11 ELSE 0)

\* for i in range(0, len(mag_list)): rename mag_list[i] to
\* old_mag_name[:-11] + str(i+1) + '.nii.gz'   (i is 1-based here)
RECURSIVE RenameLoop(_, _, _)
RenameLoop(st, mag_list, i) ==
    IF i > Len(mag_list) THEN st
    ELSE RenameLoop(Rename(st, mag_list[i], DropLast11(mag_list[i]) \o Str(i) \o NiiGz),
                    mag_list, i + 1)

\* glob(path.join(folder_output, prefix + '*')): the matching names in any
\* of the orders a directory listing can have.
GlobPrefixOrders(files, prefix) ==
    LET M == {n \in DOMAIN files :
                 Len(n) >= Len(prefix) /\ SubSeq(n, 1, Len(prefix)) = prefix}
    IN  {q \in [1..Cardinality(M) -> M] : \A a, b \in 1..Cardinality(M) : a # b => q[a] # q[b]}

\* A denylist that lost its first entry.
files_to_skip_partial ==
    { <<"1", "3", "0", "0", "2", "P", "R", "J", "2", "0", "1", "5", "0", "9", "2", "2", "M", "1", "8", "B", "0", "M", "A", "P", "p", "h", "_", "S", "0", "1", "4", ".", "n", "i", "i", ".", "g", "z">>,
      <<"1", "1", "0", "0", "1", "P", "G", "M", "2", "0", "1", "3", "0", "7", "0", "4", "M", "0", "0", "B", "0", "M", "A", "P", "p", "h", "_", "S", "0", "1", "0", ".", "b", "v", "a", "l">>,
      <<"0", "7", "0", "0", "2", "P", "P", "P", "2", "0", "1", "5", "0", "1", "1", "6", "M", "1", "8", "B", "0", "M", "A", "P", "p", "h", "_", "S", "0", "0", "9", ".", "n", "i", "i", ".", "g", "z">>,
      <<"0", "7", "0", "0", "3", "P", "G", "M", "2", "0", "1", "4", "1", "2", "1", "7", "M", "1", "8", "B", "0", "M", "A", "P", "p", "h", "_", "S", "0", "1", "0", ".", "n", "i", "i", ".", "g", "z">> }

files_to_skip ==
    { <<"1", "3", "0", "0", "1", "P", "B", "A", "2", "0", "1", "5", "0", "6", "2", "3", "M", "1", "8", "B", "0", "M", "A", "P", "p", "h", "_", "S", "0", "1", "6", ".", "n", "i", "i", ".", "g", "z">>,
      <<"1", "3", "0", "0", "2", "P", "R", "J", "2", "0", "1", "5", "0", "9", "2", "2", "M", "1", "8", "B", "0", "M", "A", "P", "p", "h", "_", "S", "0", "1", "4", ".", "n", "i", "i", ".", "g", "z">>,
      <<"1", "1", "0", "0", "1", "P", "G", "M", "2", "0", "1", "3", "0", "7", "0", "4", "M", "0", "0", "B", "0", "M", "A", "P", "p", "h", "_", "S", "0", "1", "0", ".", "b", "v", "a", "l">>,
      <<"0", "7", "0", "0", "2", "P", "P", "P", "2", "0", "1", "5", "0", "1", "1", "6", "M", "1", "8", "B", "0", "M", "A", "P", "p", "h", "_", "S", "0", "0", "9", ".", "n", "i", "i", ".", "g", "z">>,
      <<"0", "7", "0", "0", "3", "P", "G", "M", "2", "0", "1", "4", "1", "2", "1", "7", "M", "1", "8", "B", "0", "M", "A", "P", "p", "h", "_", "S", "0", "1", "0", ".", "n", "i", "i", ".", "g", "z">> }

TagMap == <<"M", "A", "P", "_">>
TagMapPh == <<"M", "A", "P", "p", "h", "_">>

\* fixed_file[k] is False, or the name of a folder.
NoFixed == [given |-> FALSE, folder |-> <<>>]
Fixed(f) == [given |-> TRUE, folder |-> f]

\* The outcome of a call: return value and folder_output afterwards.
Outcome(r, e, f) == [ret |-> r, exists |-> e, files |-> f]

(***************************************************************************)
(* convert_fieldmap                                                        *)
(***************************************************************************)
\* A directory creation that accepts an existing directory.
os_mkdir_exist_ok(exists) == ""

\* os.mkdir(path): the error it raises, "" for none.
os_mkdir(exists) == IF exists THEN "FileExistsError" ELSE ""

\* The four renames of the dual layout with the indices exchanged.
DualRenames_swapped(st, bids_name_mag, bids_name_ph) ==
    Rename(Rename(Rename(Rename(st,
        bids_name_mag \o <<"0", "0", "0", "0">> \o NiiGz, bids_name_mag \o <<"2">> \o NiiGz),
        bids_name_mag \o <<"0", "0", "0", "1">> \o NiiGz, bids_name_mag \o <<"1">> \o NiiGz),
        bids_name_ph \o <<"0", "0", "0", "0">> \o NiiGz, bids_name_ph \o <<"2">> \o NiiGz),
        bids_name_ph \o <<"0", "0", "0", "1">> \o NiiGz, bids_name_ph \o <<"1">> \o NiiGz)

\* The four os.rename calls of the dual layout.
DualRenames(st, bids_name_mag, bids_name_ph) ==
    Rename(Rename(Rename(Rename(st,
        bids_name_mag \o <<"0", "0", "0", "0">> \o NiiGz, bids_name_mag \o <<"1">> \o NiiGz),
        bids_name_mag \o <<"0", "0", "0", "1">> \o NiiGz, bids_name_mag \o <<"2">> \o NiiGz),
        bids_name_ph \o <<"0", "0", "0", "0">> \o NiiGz, bids_name_ph \o <<"1">> \o NiiGz),
        bids_name_ph \o <<"0", "0", "0", "1">> \o NiiGz, bids_name_ph \o <<"2">> \o NiiGz)

\* The result of a call that returns or raises after the renames.
AfterRenames(st) ==
    Outcome(IF st.err = "" THEN RetNone ELSE RetRaise(st.err), TRUE, st.files)

\* Case 1: one phase difference image and at least one magnitude image.
\* One outcome for each order in which glob can list the split files.
SinglePhase(files, map1, dim_map, map_ph1, name) ==
    LET copied == CopyInto(files, map_ph1, name \o get_bids_suff("SingleMapPh") \o NiiGz)
        split == FslSplit(copied, map1, dim_map, name \o get_bids_suff("Map"))
    IN  {AfterRenames(RenameLoop([files |-> split, err |-> ""], mag_list, 1)) :
            mag_list \in GlobPrefixOrders(split, name \o get_bids_suff("Map"))}

\* Case 2: two phase images and two magnitude images.
DualPhase(files, map1, dim_map, map_ph1, dim_map_ph, name) ==
    LET bids_name_ph == name \o get_bids_suff("MultiMapPh")
        bids_name_mag == name \o get_bids_suff("Map")
        split_ph == FslSplit(files, map_ph1, dim_map_ph, bids_name_ph)
        split == FslSplit(split_ph, map1, dim_map, bids_name_mag)
    IN  AfterRenames(DualRenames([files |-> split, err |-> ""], bids_name_mag, bids_name_ph))

\* The missing and incomplete results with the two codes exchanged.
MissingResult_swapped(map, map_ph) ==
    IF Len(map) = 0 /\ Len(map_ph) = 0 THEN RetInt(0) ELSE RetInt(-1)

\* The modality is missing (-1) or incomplete (0).
MissingResult(map, map_ph) ==
    LET mag_missing == Len(map) = 0
        map_ph_missing == Len(map_ph) = 0
    IN  IF mag_missing /\ map_ph_missing THEN RetInt(-1) ELSE RetInt(0)

\* The set of outcomes of convert_fieldmap(folder_input, folder_output, name,
\* fixed_file), listing being the files below folder_input and exists, files
\* the state of folder_output.
convert_fieldmap(listing, exists, files, folder_input, name, fixed_file) ==
    LET map ==
            IF ~fixed_file[1].given
            THEN remove_rescan(GlobTagged(folder_input, listing, TagMap))
            ELSE GlobFixed(folder_input, listing, fixed_file[1].folder)
        map_ph ==
            IF ~fixed_file[2].given
            THEN remove_rescan(GlobTagged(folder_input, listing, TagMapPh))
            ELSE GlobFixed(folder_input, listing, fixed_file[2].folder)
    IN  IF Len(map) > 0 /\ Len(map_ph) > 0
        THEN LET map_ph_name == LastSegment(map_ph[1])
                 map_name == LastSegment(map[1])
             IN  IF map_ph_name \notin files_to_skip /\ map_name \notin files_to_skip
                 THEN LET dim_map == HeaderDim4(folder_input, listing, map[1])
                          dim_map_ph == HeaderDim4(folder_input, listing, map_ph[1])
                      IN  IF dim_map < 0 \/ dim_map_ph < 0
                          THEN {Outcome(RetRaise("ImageFileError"), exists, files)}
                          ELSE IF os_mkdir(exists) # ""
                          THEN {Outcome(RetRaise(os_mkdir(exists)), exists, files)}
                          ELSE IF dim_map_ph = 1 /\ dim_map > 0
                          THEN SinglePhase(files, map[1], dim_map, map_ph[1], name)
                          ELSE IF dim_map_ph = 2 /\ dim_map = 2
                          THEN {DualPhase(files, map[1], dim_map, map_ph[1], dim_map_ph, name)}
                          ELSE {Outcome(RetNone, TRUE, files)}
                 ELSE {Outcome(RetNone, exists, files)}
        ELSE {Outcome(MissingResult(map, map_ph), exists, files)}

\* The images convert_fieldmap opens with nib.load, in a call with these
\* arguments: none unless both lists are non-empty and no selected name is
\* in files_to_skip.
nib_loads(listing, folder_input, fixed_file) ==
    LET map ==
            IF ~fixed_file[1].given
            THEN remove_rescan(GlobTagged(folder_input, listing, TagMap))
            ELSE GlobFixed(folder_input, listing, fixed_file[1].folder)
        map_ph ==
            IF ~fixed_file[2].given
            THEN remove_rescan(GlobTagged(folder_input, listing, TagMapPh))
            ELSE GlobFixed(folder_input, listing, fixed_file[2].folder)
    IN  IF Len(map) > 0 /\ Len(map_ph) > 0
        THEN IF LastSegment(map_ph[1]) \notin files_to_skip
                /\ LastSegment(map[1]) \notin files_to_skip
             THEN {map[1], map_ph[1]}
             ELSE {}
        ELSE {}

(***************************************************************************)
(* Inputs of convert_fieldmap.                                             *)
(***************************************************************************)
FolderIn == <<"i", "n">>

\* MAP_a, MAP_rescan, MAPph_a, MAPph_b, no
FolderMapA == <<"M", "A", "P", "_", "a">>
FolderMapRescan == <<"M", "A", "P", "_", "r", "e", "s", "c", "a", "n">>
FolderPhA == <<"M", "A", "P", "p", "h", "_", "a">>
FolderPhB == <<"M", "A", "P", "p", "h", "_", "b">>
FolderNone == <<"n", "o">>

\* m.nii.gz, p.nii.gz, m.bval
FileM == <<"m">> \o NiiGz
FileP == <<"p">> \o NiiGz
FileBval == <<"m", ".", "b", "v", "a", "l">>
FileDenied == <<"1", "3", "0", "0", "1", "P", "B", "A", "2", "0", "1", "5", "0", "6", "2", "3", "M", "1", "8", "B", "0", "M", "A", "P", "p", "h", "_", "S", "0", "1", "6", ".", "n", "i", "i", ".", "g", "z">>

\* header['dim'][4] of a file nibabel cannot load (the files of files_to_skip).
Unreadable == -1

InEntries ==
    {[folder |-> FolderMapA, file |-> FileM, vols |-> v] : v \in 0..MaxVol}
    \cup {[folder |-> FolderMapRescan, file |-> FileM, vols |-> v] : v \in 0..MaxVol}
    \cup {[folder |-> FolderPhA, file |-> FileP, vols |-> v] : v \in 0..MaxVol}
    \cup {[folder |-> FolderPhB, file |-> FileDenied, vols |-> Unreadable]}
    \cup {[folder |-> FolderMapA, file |-> FileBval, vols |-> Unreadable]}

\* Listings of at most MaxFiles files, no two with the same path.
InListings ==
    {q \in SeqsUpTo(InEntries, MaxFiles) :
        \A i, j \in 1..Len(q) :
            i # j => <<q[i].folder, q[i].file>> # <<q[j].folder, q[j].file>>}

\* s1, s2
OutNames == { <<"s", "1">>, <<"s", "2">> }

FixedFiles ==
    {<<m, ph>> : m \in {NoFixed, Fixed(FolderMapRescan), Fixed(FolderNone), Fixed(FolderPhB)},
                 ph \in {NoFixed, Fixed(FolderPhB)}}

(***************************************************************************)
(* Specification of the converter: the input folder is drawn in Init and   *)
(* is read-only; folder_output does not exist at first.                    *)
(***************************************************************************)
Init ==
    /\ call = NoCall
    /\ corr_dir = <<>>
    /\ corr_listing = <<>>
    /\ in_listing \in InListings
    /\ out_exists = FALSE
    /\ out_files = EmptyDir
    /\ in_tree = <<>>
    /\ worker = <<>>
    /\ fileinput_state = 0
    /\ caps = <<>>

ConvertFieldmapCall ==
    /\ \E name \in OutNames, fixed_file \in FixedFiles :
          \E o \in convert_fieldmap(in_listing, out_exists, out_files,
                                    FolderIn, name, fixed_file) :
              /\ call' = [op |-> "convert_fieldmap", name |-> name,
                          fixed_file |-> fixed_file, ret |-> o.ret,
                          pre_exists |-> out_exists, pre_files |-> out_files,
                          loaded |-> nib_loads(in_listing, FolderIn, fixed_file)]
              /\ out_exists' = o.exists
              /\ out_files' = o.files
    /\ UNCHANGED <<corr_dir, corr_listing, in_listing, in_tree, worker, fileinput_state, caps>>

Next == ConvertFieldmapCall

Spec == Init /\ [][Next]_vars

(***************************************************************************)
(* Vocabulary of the properties, stated on positions and sets and not by   *)
(* the operators of the model.                                             *)
(***************************************************************************)
\* t occurs in s at some offset.
Occurs(t, s) ==
    \E off \in 0..Len(s) :
        /\ off + Len(t) <= Len(s)
        /\ \A j \in 1..Len(t) : s[off + j] = t[j]

\* The positions of l that hold a path without 'rescan'.
KeptIdx(l) == {i \in 1..Len(l) : ~Occurs(KwRescan, l[i])}

\* The k-th smallest element of a set of naturals.
KthOf(S, k) == CHOOSE i \in S : Cardinality({j \in S : j <= i}) = k

\* The names of the directory that are candidates of the last
\* choose_correction call: they match the modality and their path has no
\* 'rescan'.
CandNames ==
    {corr_listing[i] : i \in
        {k \in 1..Len(corr_listing) :
            /\ Occurs(call.mod, corr_listing[k])
            /\ ~Occurs(KwRescan, PathJoin(corr_dir, corr_listing[k]))}}

CandPaths == {PathJoin(corr_dir, n) : n \in CandNames}

\* The indices of to_consider whose token some candidate path contains.
MatchingIdx ==
    {i \in 1..Len(call.to_consider) :
        \E c \in CandPaths : Occurs(call.to_consider[i], c)}

MinOf(S) == CHOOSE i \in S : \A j \in S : i <= j

\* C1: remove_rescan returns exactly the entries without the case-sensitive
\* substring 'rescan', in the same relative order and multiplicity; when no
\* entry contains 'rescan' the result is the input.
C1_RescanFilter ==
    call.op = "remove_rescan" =>
        LET l == call.list_path
            r == call.ret
        IN  /\ Len(r) = Cardinality(KeptIdx(l))
            /\ \A k \in 1..Len(r) : r[k] = l[KthOf(KeptIdx(l), k)]
            /\ (KeptIdx(l) = 1..Len(l) => r = l)

\* A call that drops two entries around a surviving one and keeps a
\* duplicate and a differently-cased 'Rescan'.
C1_Witness ==
    /\ call.op = "remove_rescan"
    /\ Len(call.list_path) = 3
    /\ Len(call.ret) = 2
    /\ \E i \in 1..3 : Occurs(KwRescan, call.list_path[i])
    /\ \E i \in 1..2 : Occurs(<<"R", "e", "s", "c", "a", "n">>, call.ret[i])

\* C2: with exactly one rescan-filtered candidate the result is that
\* candidate's base filename, whatever the priority list.
C2_SingleCandidate ==
    (call.op = "choose_correction" /\ Cardinality(CandNames) = 1) =>
        \A n \in CandNames : IsStr(call.ret, n)

\* One candidate, a priority list none of whose tokens is in the candidate,
\* and other entries in the directory that are filtered out.
C2_Witness ==
    /\ call.op = "choose_correction"
    /\ Cardinality(CandNames) = 1
    /\ Len(corr_listing) >= 2
    /\ Len(call.to_consider) >= 1
    /\ MatchingIdx = {}
    /\ call.ret.kind = "str"

\* C3: with two or more candidates the result is the token of lowest index
\* in to_consider that some candidate contains, whatever the candidate order.
C3_PriorityOrder ==
    (/\ call.op = "choose_correction"
     /\ Cardinality(CandNames) >= 2
     /\ MatchingIdx # {}) =>
        IsStr(call.ret, call.to_consider[MinOf(MatchingIdx)])

\* The first candidate in listing order contains only the later token.
C3_Witness ==
    /\ call.op = "choose_correction"
    /\ Cardinality(CandNames) >= 2
    /\ Len(call.to_consider) = 2
    /\ MatchingIdx = {1, 2}
    /\ call.to_consider[1] # call.to_consider[2]
    /\ Occurs(call.to_consider[2], corr_listing[1])
    /\ ~Occurs(call.to_consider[1], PathJoin(corr_dir, corr_listing[1]))
    /\ IsStr(call.ret, call.to_consider[1])

\* C4: choose_correction never raises; no candidate (also when all are
\* 'rescan' paths) gives -1, two or more candidates none of which contains a
\* token give 0.
C4_Sentinels ==
    call.op = "choose_correction" =>
        /\ call.ret.kind # "raise"
        /\ (CandNames = {} => IsInt(call.ret, -1))
        /\ ((Cardinality(CandNames) >= 2 /\ MatchingIdx = {})
                => IsInt(call.ret, 0))

\* Entries match the modality but every one of them is a 'rescan' path.
C4_WitnessMissing ==
    /\ call.op = "choose_correction"
    /\ \E i \in 1..Len(corr_listing) : Occurs(call.mod, corr_listing[i])
    /\ CandNames = {}
    /\ IsInt(call.ret, -1)

\* C5 (as claimed): a selected token is a substring of the base filename of
\* at least one candidate.
C5_TokenInFilename ==
    (/\ call.op = "choose_correction"
     /\ Cardinality(CandNames) >= 2
     /\ call.ret.kind = "str") =>
        \E n \in CandNames : Occurs(call.ret.val, n)

(***************************************************************************)
(* Vocabulary of the fieldmap properties: the candidates of the last       *)
(* convert_fieldmap call, read off the input listing.                      *)
(***************************************************************************)
IsNiiGzName(f) ==
    /\ Len(f) >= 7
    /\ \A j \in 1..7 : f[Len(f) - 7 + j] = <<".", "n", "i", "i", ".", "g", "z">>[j]

\* The positions of the listing that are candidates for side k (1: magnitude,
\* 2: phase) with folder tag 'tag'.
SideIdx(k, tag) ==
    {i \in 1..Len(in_listing) :
        /\ IsNiiGzName(in_listing[i].file)
        /\ IF call.fixed_file[k].given
           THEN in_listing[i].folder = call.fixed_file[k].folder
           ELSE /\ Occurs(tag, in_listing[i].folder)
                /\ ~Occurs(KwRescan, FolderIn \o <<"/">> \o in_listing[i].folder
                                         \o <<"/">> \o in_listing[i].file)}

MagIdx == SideIdx(1, <<"M", "A", "P", "_">>)
PhIdx == SideIdx(2, <<"M", "A", "P", "p", "h", "_">>)

FirstMag == in_listing[MinOf(MagIdx)]
FirstPh == in_listing[MinOf(PhIdx)]

SrcPath(e) == FolderIn \o <<"/">> \o e.folder \o <<"/">> \o e.file

IsFieldmapCall == call.op = "convert_fieldmap"

BothPresent == MagIdx # {} /\ PhIdx # {}

Denylisted == FirstMag.file \in files_to_skip \/ FirstPh.file \in files_to_skip

\* <name>_phasediff.nii.gz
PhasediffName(name) ==
    name \o <<"_", "p", "h", "a", "s", "e", "d", "i", "f", "f", ".", "n", "i", "i", ".", "g", "z">>

\* <name>_magnitude<k>.nii.gz and <name>_phase<k>.nii.gz, 1 <= k <= 9
MagnitudeName(name, k) ==
    name \o <<"_", "m", "a", "g", "n", "i", "t", "u", "d", "e">>
         \o <<DigitChars[k + 1]>> \o <<".", "n", "i", "i", ".", "g", "z">>

PhaseName(name, k) ==
    name \o <<"_", "p", "h", "a", "s", "e">>
         \o <<DigitChars[k + 1]>> \o <<".", "n", "i", "i", ".", "g", "z">>

\* C6: single-phase layout.  When the first phase candidate has 1 volume,
\* the first magnitude candidate n > 0 volumes and folder_output does not
\* exist, folder_output ends up with exactly <name>_phasediff.nii.gz and
\* <name>_magnitude1.nii.gz .. <name>_magnituden.nii.gz.
C6_SinglePhaseFiles ==
    (/\ IsFieldmapCall
     /\ ~call.pre_exists
     /\ BothPresent
     /\ FirstPh.vols = 1
     /\ FirstMag.vols > 0) =>
        /\ call.ret.kind = "none"
        /\ out_exists
        /\ DOMAIN out_files =
              {PhasediffName(call.name)}
                  \cup {MagnitudeName(call.name, k) : k \in 1..FirstMag.vols}

\* The case n = 3 of the claim.
C6_Witness ==
    /\ IsFieldmapCall
    /\ ~call.pre_exists
    /\ BothPresent
    /\ FirstPh.vols = 1
    /\ FirstMag.vols = 3
    /\ Cardinality(DOMAIN out_files) = 4

DualLayout(name) ==
    /\ out_exists
    /\ DOMAIN out_files =
          {PhaseName(name, 1), PhaseName(name, 2),
           MagnitudeName(name, 1), MagnitudeName(name, 2)}
    /\ \A k \in 1..2 :
          /\ out_files[PhaseName(name, k)] = [src |-> SrcPath(FirstPh), vol |-> k - 1]
          /\ out_files[MagnitudeName(name, k)] = [src |-> SrcPath(FirstMag), vol |-> k - 1]

\* C7 as claimed: dual-phase layout.  When the first phase and the first
\* magnitude candidate both have exactly 2 volumes, folder_output ends up
\* with exactly the four files <name>_phase1/2 and <name>_magnitude1/2,
\* volume 0000 as index 1 and volume 0001 as index 2.
C7_DualPhaseFiles ==
    (/\ IsFieldmapCall
     /\ BothPresent
     /\ FirstPh.vols = 2
     /\ FirstMag.vols = 2) => DualLayout(call.name)

\* C7 as amended: the same, for a call that finds no folder_output.
C7_DualPhaseFilesFresh ==
    (/\ IsFieldmapCall
     /\ ~call.pre_exists
     /\ BothPresent
     /\ FirstPh.vols = 2
     /\ FirstMag.vols = 2) => DualLayout(call.name)

C7_Witness ==
    /\ IsFieldmapCall
    /\ ~call.pre_exists
    /\ BothPresent
    /\ FirstPh.vols = 2
    /\ FirstMag.vols = 2
    /\ Cardinality(DOMAIN out_files) = 4

\* C8: both candidate sets empty gives -1, exactly one empty gives 0; in
\* both cases folder_output is not created and no file is written.
C8_AbsentIncomplete ==
    (IsFieldmapCall /\ ~BothPresent) =>
        /\ ((MagIdx = {} /\ PhIdx = {}) => IsInt(call.ret, -1))
        /\ ((MagIdx = {}) # (PhIdx = {}) => IsInt(call.ret, 0))
        /\ out_exists = call.pre_exists
        /\ out_files = call.pre_files

\* The phase side is present, the only magnitude image is a 'rescan'.
C8_Witness ==
    /\ IsFieldmapCall
    /\ MagIdx = {}
    /\ PhIdx # {}
    /\ \E i \in 1..Len(in_listing) :
          Occurs(<<"M", "A", "P", "_">>, in_listing[i].folder)
    /\ IsInt(call.ret, 0)
    /\ ~out_exists

UnsupportedPair ==
    /\ FirstPh.vols >= 0
    /\ FirstMag.vols >= 0
    /\ ~(FirstPh.vols = 1 /\ FirstMag.vols > 0)
    /\ ~(FirstPh.vols = 2 /\ FirstMag.vols = 2)

\* C9 as claimed: with both candidates present and a pair of volume counts
\* that is neither (1, >0) nor (2, 2), the call raises no error and creates
\* nothing at or under folder_output.
C9_UnsupportedNoOutput ==
    (IsFieldmapCall /\ BothPresent /\ UnsupportedPair) =>
        /\ call.ret.kind # "raise"
        /\ out_exists = call.pre_exists
        /\ out_files = call.pre_files

\* C10 as claimed: a call that finds folder_output existing fails with an
\* error and leaves its files unchanged.
C10_ExistingDirFails ==
    (IsFieldmapCall /\ call.pre_exists) =>
        /\ call.ret.kind = "raise"
        /\ out_files = call.pre_files

\* C10 as amended: a call that finds folder_output existing never changes
\* it; it fails with an error when both candidate sets are non-empty and no
\* selected file name is denylisted, and otherwise returns -1, 0 or None.
C10_ExistingDirGuard ==
    (IsFieldmapCall /\ call.pre_exists) =>
        /\ out_exists
        /\ out_files = call.pre_files
        /\ IF BothPresent /\ ~Denylisted
           THEN call.ret.kind = "raise"
           ELSE call.ret.kind \in {"int", "none"}

\* A second call after a conversion that wrote files.
C10_Witness ==
    /\ IsFieldmapCall
    /\ call.pre_exists
    /\ call.pre_files # EmptyDir
    /\ call.ret.kind = "raise"
    /\ out_files = call.pre_files

\* The selected magnitude or phase file is 13001PBA20150623M18B0MAPph_S016.nii.gz,
\* the first name of the denylist in the source.
SelectedDenied == FirstMag.file = FileDenied \/ FirstPh.file = FileDenied

\* C11: when the file name of the selected magnitude or phase candidate is
\* in files_to_skip, convert_fieldmap raises no error, reads no image header
\* and creates neither folder_output nor any file.
C11_DenylistSkips ==
    (IsFieldmapCall /\ BothPresent /\ SelectedDenied) =>
        /\ call.ret.kind = "none"
        /\ call.loaded = {}
        /\ out_exists = call.pre_exists
        /\ out_files = call.pre_files

\* The phase candidate is denylisted, the magnitude candidate is a good
\* image, and folder_output is still absent after the call.
C11_Witness ==
    /\ IsFieldmapCall
    /\ BothPresent
    /\ FirstPh.file = FileDenied
    /\ FirstMag.file # FileDenied
    /\ FirstMag.vols > 0
    /\ call.ret.kind = "none"
    /\ ~out_exists

\* The magnitude side is given, by fixed_file, the folder of a denylisted file.
C11_WitnessMagnitude ==
    /\ IsFieldmapCall
    /\ BothPresent
    /\ FirstMag.file = FileDenied
    /\ FirstPh.file # FileDenied
    /\ call.ret.kind = "none"

(***************************************************************************)
(* The folders of folder_input: in_tree is a sequence of [name, files],    *)
(* files a sequence of [name, text] in listing order; text is the content  *)
(* of a text file as characters, "\n" included, and <<>> for an image.     *)
(***************************************************************************)
RECURSIVE FolderNames(_)
FolderNames(tree) ==
    IF tree = <<>> THEN <<>> ELSE <<Head(tree).name>> \o FolderNames(Tail(tree))

\* The files of the folder with path p; none when there is no such folder.
FilesAt(tree, folder_input, p) ==
    IF \E k \in 1..Len(tree) : PathJoin(folder_input, tree[k].name) = p
    THEN tree[CHOOSE k \in 1..Len(tree) : PathJoin(folder_input, tree[k].name) = p].files
    ELSE <<>>

\* glob(path.join(p, '*' + part + '*')) on the files of folder p.
RECURSIVE GlobFilesContaining(_, _, _)
GlobFilesContaining(p, files, part) ==
    IF files = <<>> THEN <<>>
    ELSE IF IsSubstr(part, Head(files).name)
         THEN <<PathJoin(p, Head(files).name)>> \o GlobFilesContaining(p, Tail(files), part)
         ELSE GlobFilesContaining(p, Tail(files), part)

\* glob(path.join(p, '*' + ext)) on the files of folder p.
RECURSIVE GlobFilesEnding(_, _, _)
GlobFilesEnding(p, files, ext) ==
    IF files = <<>> THEN <<>>
    ELSE IF EndsWith(Head(files).name, ext)
         THEN <<PathJoin(p, Head(files).name)>> \o GlobFilesEnding(p, Tail(files), ext)
         ELSE GlobFilesEnding(p, Tail(files), ext)

\* glob(path.join(folder_input, fixed)): the folder of that name, if any.
RECURSIVE GlobNamed(_, _, _)
GlobNamed(folder_input, names, fixed) ==
    IF names = <<>> THEN <<>>
    ELSE IF Head(names) = fixed
         THEN <<PathJoin(folder_input, Head(names))>> \o GlobNamed(folder_input, Tail(names), fixed)
         ELSE GlobNamed(folder_input, Tail(names), fixed)

\* Is p the path of a file of the tree.
IsFile(tree, folder_input, p) ==
    \E k \in 1..Len(tree) : \E j \in 1..Len(tree[k].files) :
        PathJoin(PathJoin(folder_input, tree[k].name), tree[k].files[j].name) = p

TagFlair == <<"T", "2", "F", "L", "A", "I", "R">>
TagFmri == <<"f", "M", "R", "I">>
ExtNii == <<".", "n", "i", "i">>
TaskRest == <<"_", "t", "a", "s", "k", "-", "r", "e", "s", "t">>

(***************************************************************************)
(* convert_T1                                                              *)
(***************************************************************************)
\* A convert_T1 that always calls os.mkdir.
convert_T1_mkdir_always(tree, exists, files, folder_input, t1_path, t1_bids_name) ==
    IF exists THEN Outcome(RetRaise("FileExistsError"), exists, files)
    ELSE IF IsFile(tree, folder_input, t1_path)
         THEN Outcome(RetNone, TRUE,
                      CopyInto(files, t1_path, t1_bids_name \o get_bids_suff("T1") \o NiiGz))
         ELSE Outcome(RetRaise("IOError"), TRUE, files)

\* os.mkdir when output_path is absent, then the copy; copy raises when
\* t1_path is not a file.
convert_T1(tree, exists, files, folder_input, t1_path, t1_bids_name) ==
    IF IsFile(tree, folder_input, t1_path)
    THEN Outcome(RetNone, TRUE,
                 CopyInto(files, t1_path, t1_bids_name \o get_bids_suff("T1") \o NiiGz))
    ELSE Outcome(RetRaise("IOError"), TRUE, files)

(***************************************************************************)
(* convert_flair                                                           *)
(***************************************************************************)
\* An ambiguity handled like a missing modality.
FlairMultiple_soft(exists, files) == Outcome(RetInt(-1), exists, files)

\* len(flair_lst) > 1: a bare 'raise', which itself raises.
FlairMultiple(exists, files) == Outcome(RetRaise("RuntimeError"), exists, files)

convert_flair(tree, exists, files, folder_input, name, fixed_file) ==
    IF fixed_file.given
    THEN LET found == GlobFilesContaining(PathJoin(folder_input, fixed_file.folder),
                          FilesAt(tree, folder_input, PathJoin(folder_input, fixed_file.folder)),
                          <<>>)
         IN  IF Len(found) = 0 THEN Outcome(RetRaise("IndexError"), exists, files)
             ELSE IF ~exists THEN Outcome(RetRaise("IOError"), exists, files)
             ELSE Outcome(RetNone, exists,
                          CopyInto(files, found[1], name \o get_bids_suff("Flair") \o NiiGz))
    ELSE LET list_path == GlobContains(folder_input, FolderNames(tree), TagFlair)
             flair_lst == remove_rescan(list_path)
         IN  IF Len(flair_lst) = 1
             THEN LET found == GlobFilesContaining(flair_lst[1],
                                   FilesAt(tree, folder_input, flair_lst[1]), NiiGz)
                  IN  IF Len(found) = 0 THEN Outcome(RetRaise("IndexError"), TRUE, files)
                      ELSE Outcome(RetNone, TRUE,
                                   CopyInto(files, found[1],
                                            name \o get_bids_suff("Flair") \o NiiGz))
             ELSE IF Len(flair_lst) = 0 THEN Outcome(RetInt(-1), exists, files)
             ELSE FlairMultiple(exists, files)

(***************************************************************************)
(* convert_fmri                                                            *)
(***************************************************************************)
\* A selection of the last candidate.
FmriCandidate_last(fmri_lst) == fmri_lst[Len(fmri_lst)]

\* fmri_lst[0]
FmriCandidate(fmri_lst) == fmri_lst[1]

\* A convert_fmri that creates folder_output before it looks for candidates.
convert_fmri_mkdir_first(tree, exists, files, folder_input, name, fixed_fmri) ==
    LET fmri_lst ==
            IF fixed_fmri.given
            THEN GlobNamed(folder_input, FolderNames(tree), fixed_fmri.folder)
            ELSE remove_rescan(GlobContains(folder_input, FolderNames(tree), TagFmri))
    IN  IF Len(fmri_lst) > 0
        THEN LET found == GlobFilesContaining(FmriCandidate(fmri_lst),
                              FilesAt(tree, folder_input, FmriCandidate(fmri_lst)), ExtNii)
             IN  IF Len(found) = 0 THEN Outcome(RetRaise("IndexError"), TRUE, files)
                 ELSE Outcome(RetNone, TRUE,
                              CopyInto(files, found[1],
                                       name \o TaskRest \o get_bids_suff("fMRI") \o NiiGz))
        ELSE Outcome(RetInt(-1), TRUE, files)

convert_fmri(tree, exists, files, folder_input, name, fixed_fmri) ==
    LET fmri_lst ==
            IF fixed_fmri.given
            THEN GlobNamed(folder_input, FolderNames(tree), fixed_fmri.folder)
            ELSE remove_rescan(GlobContains(folder_input, FolderNames(tree), TagFmri))
    IN  IF Len(fmri_lst) > 0
        THEN LET found == GlobFilesContaining(FmriCandidate(fmri_lst),
                              FilesAt(tree, folder_input, FmriCandidate(fmri_lst)), ExtNii)
             IN  IF Len(found) = 0 THEN Outcome(RetRaise("IndexError"), TRUE, files)
                 ELSE Outcome(RetNone, TRUE,
                              CopyInto(files, found[1],
                                       name \o TaskRest \o get_bids_suff("fMRI") \o NiiGz))
        ELSE Outcome(RetInt(-1), exists, files)

(***************************************************************************)
(* merge_DTI                                                               *)
(***************************************************************************)
TagDti == <<"D", "T", "I">>
ExtBval == <<".", "b", "v", "a", "l">>
ExtBvec == <<".", "b", "v", "e", "c">>

RetList(l) == [kind |-> "list", val |-> l]

\* The content of the file with path p.
TextAt(tree, folder_input, p) ==
    LET k == CHOOSE k \in 1..Len(tree) : \E j \in 1..Len(tree[k].files) :
                 PathJoin(PathJoin(folder_input, tree[k].name), tree[k].files[j].name) = p
        j == CHOOSE j \in 1..Len(tree[k].files) :
                 PathJoin(PathJoin(folder_input, tree[k].name), tree[k].files[j].name) = p
    IN  tree[k].files[j].text

\* The lines of a text as a file object yields them: each up to and
\* including its "\n", the last one without when the text does not end so.
RECURSIVE SplitLines(_)
SplitLines(text) ==
    IF text = <<>> THEN <<>>
    ELSE IF \E i \in 1..Len(text) : text[i] = "\n"
         THEN LET k == CHOOSE i \in 1..Len(text) :
                           text[i] = "\n" /\ \A j \in 1..(i - 1) : text[j] # "\n"
              IN  <<SubSeq(text, 1, k)>> \o SplitLines(SubSeq(text, k + 1, Len(text)))
         ELSE <<text>>

\* fileinput.input(paths): the lines of the files, one file after the other.
RECURSIVE FileInputLines(_, _, _)
FileInputLines(tree, folder_input, paths) ==
    IF paths = <<>> THEN <<>>
    ELSE SplitLines(TextAt(tree, folder_input, Head(paths)))
             \o FileInputLines(tree, folder_input, Tail(paths))

\* for line in fin: fout.write(line)
RECURSIVE WriteLines(_)
WriteLines(lines) ==
    IF lines = <<>> THEN <<>> ELSE Head(lines) \o WriteLines(Tail(lines))

\* A completeness test that looks at the .bval file only.
DtiComplete_bval_only(bv, bc) == Len(bv) # 0

\* len(glob('*.bval')) != 0 and len(glob('*.bvec')) != 0
DtiComplete(bv, bc) == Len(bv) # 0 /\ Len(bc) # 0

\* The loop over dti_list; acc is [img, bval, bvec, incomp_folders, err].
\* Indexing an empty glob result with [0] raises IndexError.
RECURSIVE DtiScan(_, _, _, _)
DtiScan(tree, folder_input, dti_list, acc) ==
    IF dti_list = <<>> \/ acc.err # "" THEN acc
    ELSE LET folder == Head(dti_list)
             fs == FilesAt(tree, folder_input, folder)
             bv == GlobFilesEnding(folder, fs, ExtBval)
             bc == GlobFilesEnding(folder, fs, ExtBvec)
             im == GlobFilesContaining(folder, fs, ExtNii)
         IN  IF DtiComplete(bv, bc)
             THEN IF Len(im) = 0 \/ Len(bv) = 0 \/ Len(bc) = 0
                  THEN [acc EXCEPT !.err = "IndexError"]
                  ELSE DtiScan(tree, folder_input, Tail(dti_list),
                               [acc EXCEPT !.img = @ \o <<im[1]>>,
                                           !.bval = @ \o <<bv[1]>>,
                                           !.bvec = @ \o <<bc[1]>>])
             ELSE DtiScan(tree, folder_input, Tail(dti_list),
                          [acc EXCEPT !.incomp_folders = @ \o <<folder>>])

\* A merge_DTI that always returns the list.
DtiReturn_always(incomp_folders) == RetList(incomp_folders)

\* if len(incomp_folders) > 0: return incomp_folders; else fall off the end.
DtiReturn(incomp_folders) ==
    IF Len(incomp_folders) > 0 THEN RetList(incomp_folders) ELSE RetNone

\* fixed_dti_list is False, or a list of folder names.
NoFixedList == [given |-> FALSE, list |-> <<>>]
FixedList(l) == [given |-> TRUE, list |-> l]

merge_DTI(tree, exists, files, folder_input, name, fixed_dti_list) ==
    LET dti_list ==
            IF fixed_dti_list.given
            THEN [i \in 1..Len(fixed_dti_list.list) |->
                     PathJoin(folder_input, fixed_dti_list.list[i])]
            ELSE remove_rescan(GlobContains(folder_input, FolderNames(tree), TagDti))
    IN  IF Len(dti_list) = 0 THEN Outcome(RetInt(-1), exists, files)
        ELSE LET acc == DtiScan(tree, folder_input, dti_list,
                                [img |-> <<>>, bval |-> <<>>, bvec |-> <<>>,
                                 incomp_folders |-> <<>>, err |-> ""])
                 base == name \o get_bids_suff("dwi")
             IN  IF acc.err # "" THEN Outcome(RetRaise(acc.err), TRUE, files)
                 ELSE IF Len(acc.img) > 0
                 THEN Outcome(DtiReturn(acc.incomp_folders), TRUE,
                          Put(Put(Put(files,
                              base \o NiiGz, [merged |-> acc.img]),
                              base \o ExtBval,
                              [text |-> WriteLines(FileInputLines(tree, folder_input, acc.bval))]),
                              base \o ExtBvec,
                              [text |-> WriteLines(FileInputLines(tree, folder_input, acc.bvec))]))
                 ELSE Outcome(DtiReturn(acc.incomp_folders), TRUE, files)

(***************************************************************************)
(* Inputs of the single-file converters and of merge_DTI.                  *)
(***************************************************************************)
MaxFolders == 3    \* most folders in folder_input

Image(n) == [name |-> n, text |-> <<>>]
TextFile(n, t) == [name |-> n, text |-> t]
Folder(n, fs) == [name |-> n, files |-> fs]

FolderFlairA == <<"T", "2", "F", "L", "A", "I", "R", "_", "a">>
FolderFlairB == <<"T", "2", "F", "L", "A", "I", "R", "_", "b">>
FolderFlairRescan == <<"T", "2", "F", "L", "A", "I", "R", "_", "r", "e", "s", "c", "a", "n">>
FolderFmriA == <<"f", "M", "R", "I", "_", "a">>
FolderFmriB == <<"f", "M", "R", "I", "_", "b">>
FolderFmriC == <<"f", "M", "R", "I", "_", "c">>
FolderDtiA == <<"D", "T", "I", "_", "a">>
FolderDtiB == <<"D", "T", "I", "_", "b">>
FolderDtiC == <<"D", "T", "I", "_", "c">>
FolderDtiD == <<"D", "T", "I", "_", "d">>

FileF == <<"f", ".", "n", "i", "i", ".", "g", "z">>
FileR == <<"r", ".", "n", "i", "i">>
FileJson == <<"r", ".", "j", "s", "o", "n">>
FileD == <<"d", ".", "n", "i", "i", ".", "g", "z">>
FileDBval == <<"d", ".", "b", "v", "a", "l">>
FileDBvec == <<"d", ".", "b", "v", "e", "c">>

\* One line; one line without its newline; two lines.
TextOneLine == <<"0", "\n">>
TextNoNewline == <<"7">>
TextTwoLines == <<"1", "\n", "2", "\n">>

\* T2FLAIR_a with an image, T2FLAIR_b empty, T2FLAIR_rescan with an image;
\* fMRI_a with a side-car and an image, fMRI_b with a side-car only, fMRI_c
\* with an image;
\* DTI_a complete, DTI_b without .bvec, DTI_c without image, DTI_d complete
\* with a .bval that does not end with a newline.
FolderPool ==
    { Folder(FolderFlairA, <<Image(FileF)>>),
      Folder(FolderFlairB, <<>>),
      Folder(FolderFlairRescan, <<Image(FileF)>>),
      Folder(FolderFmriA, <<TextFile(FileJson, TextOneLine), Image(FileR)>>),
      Folder(FolderFmriB, <<TextFile(FileJson, TextOneLine)>>),
      Folder(FolderFmriC, <<Image(FileR)>>),
      Folder(FolderDtiA, <<Image(FileD), TextFile(FileDBval, TextOneLine),
                           TextFile(FileDBvec, TextTwoLines)>>),
      Folder(FolderDtiB, <<Image(FileD), TextFile(FileDBval, TextOneLine)>>),
      Folder(FolderDtiC, <<TextFile(FileDBval, TextOneLine),
                           TextFile(FileDBvec, TextOneLine)>>),
      Folder(FolderDtiD, <<Image(FileD), TextFile(FileDBval, TextNoNewline),
                           TextFile(FileDBvec, TextTwoLines)>>) }

InTrees == DistinctSeqsUpTo(FolderPool, MaxFolders)

\* in/T2FLAIR_a/f.nii.gz and in/fMRI_a/r.nii
T1Paths ==
    { PathJoin(PathJoin(FolderIn, FolderFlairA), FileF),
      PathJoin(PathJoin(FolderIn, FolderFmriA), FileR) }

ConvName == <<"s", "1">>

FlairFixed == {NoFixed, Fixed(FolderFlairRescan)}
FmriFixed == {NoFixed, Fixed(FolderFmriB)}
DtiFixed == {NoFixedList, FixedList(<<FolderDtiD, FolderDtiA>>)}

(***************************************************************************)
(* Specification of the single-file converters and of merge_DTI, all       *)
(* writing into one folder_output.                                         *)
(***************************************************************************)
InitConv ==
    /\ call = NoCall
    /\ corr_dir = <<>>
    /\ corr_listing = <<>>
    /\ in_listing = <<>>
    /\ out_exists = FALSE
    /\ out_files = EmptyDir
    /\ in_tree \in InTrees
    /\ worker = <<>>
    /\ fileinput_state = 0
    /\ caps = <<>>

\* The step of a call with outcome o.
Returns(op, arg, o) ==
    /\ call' = [op |-> op, arg |-> arg, name |-> ConvName, ret |-> o.ret,
                pre_exists |-> out_exists, pre_files |-> out_files]
    /\ out_exists' = o.exists
    /\ out_files' = o.files
    /\ UNCHANGED <<corr_dir, corr_listing, in_listing, in_tree, worker, fileinput_state, caps>>

ConvertT1Call ==
    \E t1_path \in T1Paths :
        Returns("convert_T1", t1_path,
                convert_T1(in_tree, out_exists, out_files, FolderIn, t1_path, ConvName))

ConvertFlairCall ==
    \E fixed_file \in FlairFixed :
        Returns("convert_flair", fixed_file,
                convert_flair(in_tree, out_exists, out_files, FolderIn, ConvName, fixed_file))

ConvertFmriCall ==
    \E fixed_fmri \in FmriFixed :
        Returns("convert_fmri", fixed_fmri,
                convert_fmri(in_tree, out_exists, out_files, FolderIn, ConvName, fixed_fmri))

MergeDTICall ==
    \E fixed_dti_list \in DtiFixed :
        Returns("merge_DTI", fixed_dti_list,
                merge_DTI(in_tree, out_exists, out_files, FolderIn, ConvName, fixed_dti_list))

NextConv == ConvertT1Call \/ ConvertFlairCall \/ ConvertFmriCall \/ MergeDTICall

SpecConv == InitConv /\ [][NextConv]_vars

(***************************************************************************)
(* Two conversions run by two workers of one interpreter, each with its    *)
(* own folder_input and its own folder_output.  convert_T1, convert_flair, *)
(* convert_fmri and convert_fieldmap read their folder_input and write     *)
(* their folder_output only, so each is one step.  merge_DTI goes through  *)
(* fileinput.input(), which keeps the FileInput it returns in the module   *)
(* global fileinput._state and refuses to make a new one while the one in  *)
(* _state has a file open; its steps are the scan, each call of            *)
(* fileinput.input(), each line read and written, and the return.          *)
(***************************************************************************)
Workers == {1, 2}

\* DTI_a; DTI_d and DTI_a; DTI_b, T2FLAIR_a and fMRI_a.
ParTrees ==
    {t \in InTrees :
        FolderNames(t) \in { <<FolderDtiA>>, <<FolderDtiD, FolderDtiA>>,
                             <<FolderDtiB, FolderFlairA, FolderFmriA>> }}

\* No field map; MAP_a/m.nii.gz with 2 volumes and MAPph_a/p.nii.gz with 1.
ParListings ==
    { <<>>,
      <<[folder |-> FolderMapA, file |-> FileM, vols |-> 2],
        [folder |-> FolderPhA, file |-> FileP, vols |-> 1]>> }

PendingRet == [kind |-> "pending", val |-> 0]

NoAcc == [img |-> <<>>, bval |-> <<>>, bvec |-> <<>>, incomp_folders |-> <<>>, err |-> ""]

IdleWorker ==
    [op |-> "none", arg |-> <<>>, pc |-> "idle", ret |-> PendingRet,
     acc |-> NoAcc, fin |-> <<>>, fin_open |-> FALSE]

InitPar ==
    /\ call = NoCall
    /\ corr_dir = <<>>
    /\ corr_listing = <<>>
    /\ in_listing \in [Workers -> ParListings]
    /\ in_tree \in [Workers -> ParTrees]
    /\ out_exists = [w \in Workers |-> FALSE]
    /\ out_files = [w \in Workers |-> EmptyDir]
    /\ worker = [w \in Workers |-> IdleWorker]
    /\ fileinput_state = 0
    /\ caps = <<>>

\* Worker w's call op(arg) ends with outcome o.
Finish(w, op, arg, o) ==
    /\ worker' = [worker EXCEPT ![w] =
                     [@ EXCEPT !.op = op, !.arg = arg, !.pc = "done", !.ret = o.ret]]
    /\ out_exists' = [out_exists EXCEPT ![w] = o.exists]
    /\ out_files' = [out_files EXCEPT ![w] = o.files]

ParConvertT1(w) ==
    /\ worker[w].pc = "idle"
    /\ \E t1_path \in T1Paths :
           Finish(w, "convert_T1", t1_path,
                  convert_T1(in_tree[w], out_exists[w], out_files[w], FolderIn,
                             t1_path, ConvName))
    /\ UNCHANGED <<call, corr_dir, corr_listing, in_listing, in_tree, fileinput_state, caps>>

ParConvertFlair(w) ==
    /\ worker[w].pc = "idle"
    /\ Finish(w, "convert_flair", <<>>,
              convert_flair(in_tree[w], out_exists[w], out_files[w], FolderIn,
                            ConvName, NoFixed))
    /\ UNCHANGED <<call, corr_dir, corr_listing, in_listing, in_tree, fileinput_state, caps>>

ParConvertFmri(w) ==
    /\ worker[w].pc = "idle"
    /\ Finish(w, "convert_fmri", <<>>,
              convert_fmri(in_tree[w], out_exists[w], out_files[w], FolderIn,
                           ConvName, NoFixed))
    /\ UNCHANGED <<call, corr_dir, corr_listing, in_listing, in_tree, fileinput_state, caps>>

ParConvertFieldmap(w) ==
    /\ worker[w].pc = "idle"
    /\ \E o \in convert_fieldmap(in_listing[w], out_exists[w], out_files[w], FolderIn,
                                 ConvName, <<NoFixed, NoFixed>>) :
           Finish(w, "convert_fieldmap", <<>>, o)
    /\ UNCHANGED <<call, corr_dir, corr_listing, in_listing, in_tree, fileinput_state, caps>>

\* merge_DTI up to the end of the loop over dti_list.
ParMergeScan(w) ==
    /\ worker[w].pc = "idle"
    /\ LET dti_list ==
               remove_rescan(GlobContains(FolderIn, FolderNames(in_tree[w]), TagDti))
           acc == DtiScan(in_tree[w], FolderIn, dti_list, NoAcc)
       IN  IF Len(dti_list) = 0
           THEN Finish(w, "merge_DTI", <<>>,
                       Outcome(RetInt(-1), out_exists[w], out_files[w]))
           ELSE IF acc.err # ""
           THEN Finish(w, "merge_DTI", <<>>,
                       Outcome(RetRaise(acc.err), TRUE, out_files[w]))
           ELSE IF Len(acc.img) > 0
           THEN /\ worker' = [worker EXCEPT ![w] =
                                 [@ EXCEPT !.op = "merge_DTI", !.acc = acc,
                                           !.pc = "input_bval"]]
                /\ out_exists' = [out_exists EXCEPT ![w] = TRUE]
                /\ UNCHANGED out_files
           ELSE Finish(w, "merge_DTI", <<>>,
                       Outcome(DtiReturn(acc.incomp_folders), TRUE, out_files[w]))
    /\ UNCHANGED <<call, corr_dir, corr_listing, in_listing, in_tree, fileinput_state, caps>>

\* fileinput.input(bval) with fslmerge and the open of the .bval output, or
\* fileinput.input(bvec) with the open of the .bvec output.  input() raises
\* RuntimeError('input() already active') when the FileInput in _state has
\* a file open.
ParFileInput(w) ==
    /\ worker[w].pc \in {"input_bval", "input_bvec"}
    /\ LET base == ConvName \o get_bids_suff("dwi")
           acc == worker[w].acc
       IN  IF fileinput_state # 0 /\ worker[fileinput_state].fin_open
           THEN /\ worker' = [worker EXCEPT ![w] =
                                 [@ EXCEPT !.pc = "done",
                                           !.ret = RetRaise("RuntimeError")]]
                /\ UNCHANGED <<out_files, fileinput_state>>
           ELSE /\ fileinput_state' = w
                /\ IF worker[w].pc = "input_bval"
                   THEN /\ worker' = [worker EXCEPT ![w] =
                               [@ EXCEPT !.pc = "read_bval",
                                         !.fin = FileInputLines(in_tree[w], FolderIn, acc.bval),
                                         !.fin_open = FALSE]]
                        /\ out_files' = [out_files EXCEPT ![w] =
                               Put(Put(@, base \o NiiGz, [merged |-> acc.img]),
                                   base \o ExtBval, [text |-> <<>>])]
                   ELSE /\ worker' = [worker EXCEPT ![w] =
                               [@ EXCEPT !.pc = "read_bvec",
                                         !.fin = FileInputLines(in_tree[w], FolderIn, acc.bvec),
                                         !.fin_open = FALSE]]
                        /\ out_files' = [out_files EXCEPT ![w] =
                               Put(@, base \o ExtBvec, [text |-> <<>>])]
    /\ UNCHANGED <<call, corr_dir, corr_listing, in_listing, in_tree, out_exists, caps>>

\* One turn of 'for line in fin: fout.write(line)': a line is read, which
\* leaves a file open in the FileInput, and written; or the input is at its
\* end, which closes it.
ParReadLine(w) ==
    /\ worker[w].pc \in {"read_bval", "read_bvec"}
    /\ LET base == ConvName \o get_bids_suff("dwi")
           out == IF worker[w].pc = "read_bval" THEN base \o ExtBval ELSE base \o ExtBvec
       IN  IF worker[w].fin # <<>>
           THEN /\ worker' = [worker EXCEPT ![w] =
                                 [@ EXCEPT !.fin = Tail(@), !.fin_open = TRUE]]
                /\ out_files' = [out_files EXCEPT ![w] =
                       Put(@, out, [text |-> @[out].text \o Head(worker[w].fin)])]
           ELSE /\ worker' = [worker EXCEPT ![w] =
                                 [@ EXCEPT !.fin_open = FALSE,
                                           !.pc = IF worker[w].pc = "read_bval"
                                                  THEN "input_bvec" ELSE "return"]]
                /\ UNCHANGED out_files
    /\ UNCHANGED <<call, corr_dir, corr_listing, in_listing, in_tree, out_exists,
                   fileinput_state, caps>>

ParMergeReturn(w) ==
    /\ worker[w].pc = "return"
    /\ worker' = [worker EXCEPT ![w] =
                     [@ EXCEPT !.pc = "done",
                               !.ret = DtiReturn(worker[w].acc.incomp_folders)]]
    /\ UNCHANGED <<call, corr_dir, corr_listing, in_listing, in_tree, out_exists,
                   out_files, fileinput_state, caps>>

NextPar ==
    \E w \in Workers :
        \/ ParConvertT1(w)
        \/ ParConvertFlair(w)
        \/ ParConvertFmri(w)
        \/ ParConvertFieldmap(w)
        \/ ParMergeScan(w)
        \/ ParFileInput(w)
        \/ ParReadLine(w)
        \/ ParMergeReturn(w)

SpecPar == InitPar /\ [][NextPar]_vars

(***************************************************************************)
(* Vocabulary of the converter properties: candidates and files read off   *)
(* in_tree.                                                                *)
(***************************************************************************)
FolderPath(k) == FolderIn \o <<"/">> \o in_tree[k].name

\* The positions of in_tree whose name contains tag and whose path has no
\* 'rescan'.
TreeIdx(tag) ==
    {k \in 1..Len(in_tree) :
        Occurs(tag, in_tree[k].name) /\ ~Occurs(KwRescan, FolderPath(k))}

\* The paths of the files of folder k whose name satisfies P, listing order.
FilePathsOf(k, P(_)) ==
    LET fs == in_tree[k].files
        idx == {j \in 1..Len(fs) : P(fs[j].name)}
    IN  [i \in 1..Cardinality(idx) |-> FolderPath(k) \o <<"/">> \o fs[KthOf(idx, i)].name]

HasNiiGz(n) == Occurs(<<".", "n", "i", "i", ".", "g", "z">>, n)
HasNii(n) == Occurs(<<".", "n", "i", "i">>, n)
IsBval(n) == Len(n) >= 5 /\ SubSeq(n, Len(n) - 4, Len(n)) = <<".", "b", "v", "a", "l">>
IsBvec(n) == Len(n) >= 5 /\ SubSeq(n, Len(n) - 4, Len(n)) = <<".", "b", "v", "e", "c">>

WholeCopy(p) == [src |-> p, vol |-> -1]

\* folder_output differs from its state before the call at most in file n.
OnlyWrote(n) ==
    /\ DOMAIN out_files = (DOMAIN call.pre_files) \cup {n}
    /\ \A m \in DOMAIN call.pre_files : m # n => out_files[m] = call.pre_files[m]

NothingWritten == out_exists = call.pre_exists /\ out_files = call.pre_files

\* s1_FLAIR.nii.gz, s1_task-rest_bold.nii.gz, s1_T1w.nii.gz
FlairOut == call.name \o <<"_", "F", "L", "A", "I", "R", ".", "n", "i", "i", ".", "g", "z">>
BoldOut ==
    call.name \o <<"_", "t", "a", "s", "k", "-", "r", "e", "s", "t", "_", "b", "o", "l", "d",
                   ".", "n", "i", "i", ".", "g", "z">>
T1Out == call.name \o <<"_", "T", "1", "w", ".", "n", "i", "i", ".", "g", "z">>

IsFlairSearch == call.op = "convert_flair" /\ ~call.arg.given

FlairIdx == TreeIdx(<<"T", "2", "F", "L", "A", "I", "R">>)

\* C12: convert_flair without a fixed override.  No rescan-filtered
\* '*T2FLAIR*' match: -1, no error.  One match: its .nii.gz file is copied to
\* <name>_FLAIR.nii.gz, folder_output created if absent.  More than one: an
\* error is raised and no file is written.
C12_FlairCardinality ==
    IsFlairSearch =>
        /\ (FlairIdx = {} => IsInt(call.ret, -1) /\ NothingWritten)
        /\ \A k \in FlairIdx :
              (FlairIdx = {k} /\ Len(FilePathsOf(k, HasNiiGz)) > 0) =>
                  /\ call.ret.kind = "none"
                  /\ out_exists
                  /\ OnlyWrote(FlairOut)
                  /\ out_files[FlairOut] = WholeCopy(FilePathsOf(k, HasNiiGz)[1])
        /\ (Cardinality(FlairIdx) > 1 =>
                call.ret.kind = "raise" /\ NothingWritten)

\* Two matches, the first of them with an image: the call raises.
C12_Witness ==
    /\ IsFlairSearch
    /\ Cardinality(FlairIdx) = 2
    /\ Len(FilePathsOf(MinOf(FlairIdx), HasNiiGz)) > 0
    /\ call.ret.kind = "raise"
    /\ ~out_exists

\* One match beside a 'rescan' folder: the copy is made into a new folder.
C12_WitnessOne ==
    /\ IsFlairSearch
    /\ Cardinality(FlairIdx) = 1
    /\ Len(in_tree) >= 2
    /\ \A k \in 1..Len(in_tree) : Occurs(<<"T", "2", "F", "L", "A", "I", "R">>, in_tree[k].name)
    /\ ~call.pre_exists
    /\ FlairOut \in DOMAIN out_files

(***************************************************************************)
(* Vocabulary of the merge_DTI properties.                                 *)
(***************************************************************************)
IsDtiCall == call.op = "merge_DTI"

DtiIdx == TreeIdx(<<"D", "T", "I">>)

\* The candidate folders of the call, in discovery order: the given list, or
\* the '*DTI*' folders without 'rescan'.
DtiCands ==
    IF call.arg.given
    THEN [i \in 1..Len(call.arg.list) |-> FolderIn \o <<"/">> \o call.arg.list[i]]
    ELSE [i \in 1..Cardinality(DtiIdx) |-> FolderPath(KthOf(DtiIdx, i))]

\* Folder p has a file whose name satisfies P.
HasFile(p, P(_)) ==
    \E k \in 1..Len(in_tree) :
        /\ FolderPath(k) = p
        /\ \E j \in 1..Len(in_tree[k].files) : P(in_tree[k].files[j].name)

\* The first file of folder p whose name satisfies P: its path, its content.
FirstFile(p, P(_)) ==
    FilePathsOf(CHOOSE k \in 1..Len(in_tree) : FolderPath(k) = p, P)[1]

ContentOf(p, P(_)) ==
    LET fs == in_tree[CHOOSE k \in 1..Len(in_tree) : FolderPath(k) = p].files
    IN  fs[MinOf({j \in 1..Len(fs) : P(fs[j].name)})].text

LacksSidecar(p) == ~HasFile(p, IsBval) \/ ~HasFile(p, IsBvec)
LacksMember(p) == LacksSidecar(p) \/ ~HasFile(p, HasNii)
FullTriplet(p) == ~LacksMember(p)

\* The entries of a sequence that satisfy Q, in order.
Pick(seq, Q(_)) ==
    LET idx == {i \in 1..Len(seq) : Q(seq[i])}
    IN  [i \in 1..Cardinality(idx) |-> seq[KthOf(idx, i)]]

\* The texts of a sequence, one after the other.
RECURSIVE Flatten(_)
Flatten(texts) ==
    IF texts = <<>> THEN <<>> ELSE Head(texts) \o Flatten(Tail(texts))

\* The number of lines of a text, as reading it line by line counts them.
LineCount(text) ==
    Cardinality({i \in 1..Len(text) : text[i] = "\n"})
        + (IF text # <<>> /\ text[Len(text)] # "\n" THEN 1 ELSE 0)

RECURSIVE SumOf(_)
SumOf(ns) == IF ns = <<>> THEN 0 ELSE Head(ns) + SumOf(Tail(ns))

\* s1_dwi.nii.gz, s1_dwi.bval, s1_dwi.bvec
DwiImg == call.name \o <<"_", "d", "w", "i", ".", "n", "i", "i", ".", "g", "z">>
DwiBval == call.name \o <<"_", "d", "w", "i", ".", "b", "v", "a", "l">>
DwiBvec == call.name \o <<"_", "d", "w", "i", ".", "b", "v", "e", "c">>

\* folder_output holds the merge of the folders ps, in that order, and
\* differs from its state before the call in these three files only.
MergedFrom(ps) ==
    /\ out_exists
    /\ DOMAIN out_files = (DOMAIN call.pre_files) \cup {DwiImg, DwiBval, DwiBvec}
    /\ \A m \in DOMAIN call.pre_files :
           m \notin {DwiImg, DwiBval, DwiBvec} => out_files[m] = call.pre_files[m]
    /\ out_files[DwiImg] = [merged |-> [i \in 1..Len(ps) |-> FirstFile(ps[i], HasNii)]]
    /\ out_files[DwiBval] =
           [text |-> Flatten([i \in 1..Len(ps) |-> ContentOf(ps[i], IsBval)])]
    /\ out_files[DwiBvec] =
           [text |-> Flatten([i \in 1..Len(ps) |-> ContentOf(ps[i], IsBvec)])]

\* C13: merge_DTI on candidates of which some lack a .bval or a .bvec merges
\* exactly the complete folders, in discovery order, into <name>_dwi.nii.gz,
\* .bval and .bvec, and returns the list of exactly the folders that lack a
\* .bval or a .bvec, each once.
C13_PartialMerge ==
    (IsDtiCall /\ \E i \in 1..Len(DtiCands) : LacksSidecar(DtiCands[i])) =>
        /\ call.ret = RetList(Pick(DtiCands, LacksSidecar))
        /\ Pick(DtiCands, FullTriplet) # <<>> => MergedFrom(Pick(DtiCands, FullTriplet))
        /\ Pick(DtiCands, FullTriplet) = <<>> => out_files = call.pre_files

\* C13 with every candidate that has both side-cars having an image too.
C13_PartialMergeWithImages ==
    (/\ IsDtiCall
     /\ \E i \in 1..Len(DtiCands) : LacksSidecar(DtiCands[i])
     /\ \A i \in 1..Len(DtiCands) : LacksSidecar(DtiCands[i]) \/ FullTriplet(DtiCands[i])) =>
        /\ call.ret = RetList(Pick(DtiCands, LacksSidecar))
        /\ Pick(DtiCands, FullTriplet) # <<>> => MergedFrom(Pick(DtiCands, FullTriplet))
        /\ Pick(DtiCands, FullTriplet) = <<>> => out_files = call.pre_files

\* Three candidates, one of them without .bvec: two folders are merged and
\* one is returned.
C13_Witness ==
    /\ IsDtiCall
    /\ Len(DtiCands) = 3
    /\ Len(Pick(DtiCands, FullTriplet)) = 2
    /\ call.ret.kind = "list"
    /\ Len(call.ret.val) = 1
    /\ DwiImg \in DOMAIN out_files

\* C14: a candidate folder that lacks any one of image, .bval and .bvec is
\* left out of the merge and is in the returned list; merge_DTI does not
\* fail on a folder that has a .bval and a .bvec but no image.
C14_AnyMemberMissing ==
    (IsDtiCall /\ \E i \in 1..Len(DtiCands) : LacksMember(DtiCands[i])) =>
        /\ call.ret = RetList(Pick(DtiCands, LacksMember))
        /\ Pick(DtiCands, FullTriplet) # <<>> => MergedFrom(Pick(DtiCands, FullTriplet))

C16_Concatenation ==
    (IsDtiCall /\ Len(DtiCands) > 0 /\ call.ret.kind # "raise"
        /\ Pick(DtiCands, FullTriplet) # <<>>) =>
        LET ps == Pick(DtiCands, FullTriplet)
        IN  /\ MergedFrom(ps)
            /\ LineCount(out_files[DwiBval].text) =
                   SumOf([i \in 1..Len(ps) |-> LineCount(ContentOf(ps[i], IsBval))])
            /\ LineCount(out_files[DwiBvec].text) =
                   SumOf([i \in 1..Len(ps) |-> LineCount(ContentOf(ps[i], IsBvec))])

\* C16 without the line counts: the concatenation and the folder order.
C16_WholeFiles ==
    (IsDtiCall /\ Len(DtiCands) > 0 /\ call.ret.kind # "raise"
        /\ Pick(DtiCands, FullTriplet) # <<>>) =>
        MergedFrom(Pick(DtiCands, FullTriplet))

(***************************************************************************)
(* convert_T1, convert_fmri and the missing-modality outcomes.             *)
(***************************************************************************)
\* Is p the path of a file of in_tree.
IsInputFile(p) ==
    \E k \in 1..Len(in_tree) : \E j \in 1..Len(in_tree[k].files) :
        FolderPath(k) \o <<"/">> \o in_tree[k].files[j].name = p

\* C17: after convert_T1 on an existing t1_path, output_path exists and holds
\* <name>_T1w.nii.gz with the content of t1_path, every other file is as
\* before, and a second run with the same arguments succeeds and leaves the
\* same state.
C17_T1Copy ==
    (call.op = "convert_T1" /\ IsInputFile(call.arg)) =>
        /\ call.ret.kind = "none"
        /\ out_exists
        /\ OnlyWrote(T1Out)
        /\ out_files[T1Out] = WholeCopy(call.arg)
        /\ (/\ call.pre_exists
            /\ T1Out \in DOMAIN call.pre_files
            /\ call.pre_files[T1Out] = WholeCopy(call.arg)) => out_files = call.pre_files

\* A second run with the same arguments, beside a file of another converter.
C17_Witness ==
    /\ call.op = "convert_T1"
    /\ IsInputFile(call.arg)
    /\ call.pre_exists
    /\ T1Out \in DOMAIN call.pre_files
    /\ call.pre_files[T1Out] = WholeCopy(call.arg)
    /\ Cardinality(DOMAIN out_files) >= 2
    /\ call.ret.kind = "none"

\* A first run into an absent output_path.
C17_WitnessFresh ==
    /\ call.op = "convert_T1"
    /\ IsInputFile(call.arg)
    /\ ~call.pre_exists
    /\ out_exists
    /\ DOMAIN out_files = {T1Out}

\* The candidate folders of a convert_fmri call: the folder of the given
\* name, or the '*fMRI*' folders without 'rescan'.
FmriIdx ==
    IF call.arg.given
    THEN {k \in 1..Len(in_tree) : in_tree[k].name = call.arg.folder}
    ELSE TreeIdx(<<"f", "M", "R", "I">>)

\* C18: convert_fmri returns -1 with zero candidates; with one or more it
\* copies the first '.nii' file of the first candidate to
\* <name>_task-rest_bold.nii.gz, creates the output directory if absent and
\* writes no other file.
C18_FmriFirstCandidate ==
    call.op = "convert_fmri" =>
        /\ FmriIdx = {} => IsInt(call.ret, -1)
        /\ (FmriIdx # {} /\ Len(FilePathsOf(MinOf(FmriIdx), HasNii)) > 0) =>
               /\ call.ret.kind = "none"
               /\ out_exists
               /\ OnlyWrote(BoldOut)
               /\ out_files[BoldOut] = WholeCopy(FilePathsOf(MinOf(FmriIdx), HasNii)[1])

\* Two candidates with different images: the one of the first is copied into
\* a new folder.
C18_Witness ==
    /\ call.op = "convert_fmri"
    /\ Cardinality(FmriIdx) >= 2
    /\ \A k \in FmriIdx : Len(FilePathsOf(k, HasNii)) > 0
    /\ ~call.pre_exists
    /\ out_exists
    /\ BoldOut \in DOMAIN out_files

\* C20: a convert_flair without override, a convert_fmri or a merge_DTI that
\* finds zero candidates returns -1, and whenever one of them returns -1 the
\* output directory has not been created and no file is written or changed.
C20_MissingLeavesNoTrace ==
    /\ (IsFlairSearch /\ FlairIdx = {}) => IsInt(call.ret, -1)
    /\ (call.op = "convert_fmri" /\ FmriIdx = {}) => IsInt(call.ret, -1)
    /\ (IsDtiCall /\ Len(DtiCands) = 0) => IsInt(call.ret, -1)
    /\ ((IsFlairSearch \/ call.op = "convert_fmri" \/ IsDtiCall) /\ IsInt(call.ret, -1)) =>
           NothingWritten

\* convert_fmri finds nothing and the output directory is still absent.
C20_Witness ==
    /\ call.op = "convert_fmri"
    /\ IsInt(call.ret, -1)
    /\ ~call.pre_exists
    /\ ~out_exists

\* merge_DTI finds nothing beside the files of an earlier conversion.
C20_WitnessDti ==
    /\ IsDtiCall
    /\ IsInt(call.ret, -1)
    /\ call.pre_exists
    /\ call.pre_files # EmptyDir
    /\ out_files = call.pre_files

(***************************************************************************)
(* Independence of concurrent conversions.                                 *)
(***************************************************************************)
\* The outcomes of worker w's conversion when it runs alone.
AloneOutcomes(w) ==
    LET op == worker[w].op
    IN  IF op = "convert_T1"
        THEN {convert_T1(in_tree[w], FALSE, EmptyDir, FolderIn, worker[w].arg, ConvName)}
        ELSE IF op = "convert_flair"
        THEN {convert_flair(in_tree[w], FALSE, EmptyDir, FolderIn, ConvName, NoFixed)}
        ELSE IF op = "convert_fmri"
        THEN {convert_fmri(in_tree[w], FALSE, EmptyDir, FolderIn, ConvName, NoFixed)}
        ELSE IF op = "convert_fieldmap"
        THEN convert_fieldmap(in_listing[w], FALSE, EmptyDir, FolderIn, ConvName,
                              <<NoFixed, NoFixed>>)
        ELSE {merge_DTI(in_tree[w], FALSE, EmptyDir, FolderIn, ConvName, NoFixedList)}

SameRet(a, b) == a.kind = b.kind /\ a.val = b.val

\* Worker w is done with the result and the folder_output of a run alone.
AsAlone(w) ==
    \E o \in AloneOutcomes(w) :
        /\ SameRet(worker[w].ret, o.ret)
        /\ out_exists[w] = o.exists
        /\ out_files[w] = o.files

\* C19: for every interleaving of the steps of two conversions with
\* distinct output directories, each conversion's return value and the
\* final content of its output directory are those of running it alone.
C19_Independent ==
    \A w \in Workers : worker[w].pc = "done" => AsAlone(w)

\* C19 for the pairs of conversions of which at most one is a merge_DTI.
C19_IndependentOneMerger ==
    (\E v \in Workers : worker[v].op # "merge_DTI" /\ worker[v].pc = "done") =>
        \A w \in Workers : worker[w].pc = "done" => AsAlone(w)

\* Both conversions are done, one of them a merge_DTI that has merged.
C19_WitnessOneMerger ==
    /\ \A w \in Workers : worker[w].pc = "done"
    /\ \E v, w \in Workers :
           /\ worker[v].op = "convert_fieldmap"
           /\ worker[w].op = "merge_DTI"
           /\ worker[w].ret.kind = "none"

(***************************************************************************)
(* Volume order of the single-phase renaming.                              *)
(***************************************************************************)
IsSinglePhaseCall ==
    /\ IsFieldmapCall
    /\ ~call.pre_exists
    /\ BothPresent
    /\ FirstPh.vols = 1
    /\ FirstMag.vols > 0

\* Volume i (0-based) of the first magnitude candidate, as fslsplit writes it.
SplitVolume(i) == [src |-> SrcPath(FirstMag), vol |-> i]

\* C21: in the single-phase path the split file of 0-based volume i ends up
\* as <name>_magnitude(i+1).nii.gz, whatever order glob lists the split
\* files in, and no rename overwrites a file that is not yet renamed.
C21_VolumeOrder ==
    IsSinglePhaseCall =>
        \A i \in 0..(FirstMag.vols - 1) :
            /\ MagnitudeName(call.name, i + 1) \in DOMAIN out_files
            /\ out_files[MagnitudeName(call.name, i + 1)] = SplitVolume(i)

\* C21 without the order: every volume is in exactly one magnitude file,
\* none is lost to an overwriting rename.
C21_NoVolumeLost ==
    IsSinglePhaseCall =>
        /\ call.ret.kind = "none"
        /\ \A i \in 0..(FirstMag.vols - 1) :
               Cardinality({k \in 1..FirstMag.vols :
                   /\ MagnitudeName(call.name, k) \in DOMAIN out_files
                   /\ out_files[MagnitudeName(call.name, k)] = SplitVolume(i)}) = 1

\* Two volumes, listed by glob in the order that exchanges them.
C21_WitnessExchanged ==
    /\ IsSinglePhaseCall
    /\ FirstMag.vols = 2
    /\ out_files[MagnitudeName(call.name, 1)] = SplitVolume(1)
    /\ out_files[MagnitudeName(call.name, 2)] = SplitVolume(0)

(***************************************************************************)
(* clinica/pipelines/machine_learning/input.py: CAPSInput with its         *)
(* voxel-based, region-based and REGSVM subclasses.                        *)
(*                                                                         *)
(* caps is [obj, n, present, kernel_file, saved]: the object (None before  *)
(* a construction succeeds), the number of rows of subjects_visits_tsv,    *)
(* the subjects whose image files exist, the matrix in the file a          *)
(* precomputed kernel may be loaded from (None for no such file) and the   *)
(* content of output_dir/kernel.txt.  The loaders (load_data), the kernel  *)
(* function and numpy are collaborators: what they return names what they  *)
(* were given.  The .tsv files are well formed and the subclass parameters *)
(* (modulated, atlas) valid.                                               *)
(***************************************************************************)
MaxSubjects == 2   \* most rows in subjects_visits_tsv

NoneVal == [kind |-> "None"]

IsNone(v) == v.kind = "None"

RetVal(v) == [kind |-> "value", val |-> v]

Classes == {"CAPSVoxelBasedInput", "CAPSRegionBasedInput", "CAPSVoxelBasedInputREGSVM"}

\* The image types __init__ accepts.
ValidImageTypes == {"T1", "fdg", "av45", "pib", "flute", "dwi"}

\* The path of the image of row i: path.join of caps_directory, 'subjects',
\* participant, session, a folder and a file name made of participant,
\* session and a suffix; REGSVM keeps its T1 images in caps_directory.
ImagePath(cls, image_type, i) ==
    LET pet == [root |-> "caps_directory", subjects |-> "subjects",
                participant |-> i, session |-> i,
                folder |-> "pet/preprocessing/group-",
                file |-> [prefix |-> "", participant |-> i, session |-> i,
                          acq |-> image_type,
                          suffix |-> "_pet.nii.gz"]]
        stat == [pet EXCEPT !.folder = "pet/preprocessing/group-/atlas_statistics",
                            !.file.suffix = "_statistics.tsv"]
    IN  IF image_type = "T1"
        THEN IF cls = "CAPSVoxelBasedInput"
             THEN [pet EXCEPT !.folder = "t1/spm/dartel/group-",
                              !.file.acq = "",
                              !.file.suffix = "_T1w_segm-graymatter_probability.nii.gz"]
             ELSE IF cls = "CAPSRegionBasedInput"
             THEN [pet EXCEPT !.folder = "t1/spm/dartel/group-/atlas_statistics/",
                              !.file.acq = "",
                              !.file.suffix = "_T1w_map-graymatter_statistics.tsv"]
             ELSE [pet EXCEPT !.subjects = "", !.participant = 0, !.session = 0,
                              !.folder = "",
                              !.file.prefix = "regul_",
                              !.file.acq = "",
                              !.file.suffix = "_T1w_segm-graymatter_probability.nii"]
        ELSE IF cls = "CAPSRegionBasedInput" THEN stat ELSE pet

\* path.exists(image): the files of the subjects in 'present' exist.
path_exists(present, image) == image.file.participant \in present

\* np.loadtxt(fname): the matrix of the file of that name, or of the text
\* rows given as a list; an error for a missing file and for anything that
\* is neither a name nor lines.
np_loadtxt(fname, kernel_file) ==
    IF fname.kind = "str"
    THEN IF IsNone(kernel_file) THEN RetRaise("OSError")
         ELSE RetVal([kind |-> "ndarray", shape |-> kernel_file.shape])
    ELSE IF fname.kind = "list"
    THEN RetVal([kind |-> "ndarray", shape |-> fname.shape])
    ELSE RetRaise("ValueError")

\* type(precomputed_kernel == str): the type of a comparison result, a type
\* object, which is true in a condition whatever precomputed_kernel is.
TypeOfEqStr(precomputed_kernel) == TRUE

\* base.MLInput.__init__ through super().__init__: no x, no kernel; then
\* CAPSInput.__init__ with its tests of image_type and precomputed_kernel.
\* The result is [ret, obj].
CAPSInput_init(cls, image_type, precomputed_kernel, n, kernel_file) ==
    LET obj == [kind |-> "CAPSInput", cls |-> cls, image_type |-> image_type,
                subjects |-> n, images |-> NoneVal, x |-> NoneVal, kernel |-> NoneVal]
        format == RetRaise("Precomputed kernel provided is not in the correct format")
    IN  IF image_type \notin ValidImageTypes
        THEN [ret |-> RetRaise("Incorrect image type"), obj |-> NoneVal]
        ELSE IF IsNone(precomputed_kernel)
        THEN [ret |-> RetNone, obj |-> obj]
        ELSE IF precomputed_kernel.kind = "ndarray"
        THEN IF precomputed_kernel.shape = <<n, n>>
             THEN [ret |-> RetNone, obj |-> [obj EXCEPT !.kernel = precomputed_kernel]]
             ELSE [ret |-> format, obj |-> NoneVal]
        ELSE IF TypeOfEqStr(precomputed_kernel)
        THEN LET loaded == np_loadtxt(precomputed_kernel, kernel_file)
             IN  IF loaded.kind = "raise"
                 THEN [ret |-> loaded, obj |-> NoneVal]
                 ELSE [ret |-> RetNone, obj |-> [obj EXCEPT !.kernel = loaded.val]]
        ELSE [ret |-> format, obj |-> NoneVal]

\* get_images of the three classes: the cached list if there is one;
\* otherwise the list is built and stored in _images, then every path is
\* tested.  The result is [ret, obj].
get_images(obj, present) ==
    IF ~IsNone(obj.images)
    THEN [ret |-> RetList(obj.images.val), obj |-> obj]
    ELSE LET images == [i \in 1..obj.subjects |-> ImagePath(obj.cls, obj.image_type, i)]
             stored == [obj EXCEPT !.images = [kind |-> "list", val |-> images]]
         IN  IF \E i \in 1..Len(images) : ~path_exists(present, images[i])
             THEN [ret |-> RetRaise("File doesn't exists"), obj |-> stored]
             ELSE [ret |-> RetList(images), obj |-> stored]

\* load_data(self._images, ...): the data of these files; the loader fails
\* on a file that does not exist.
load_data(images, present) ==
    IF \E i \in 1..Len(images) : ~path_exists(present, images[i])
    THEN RetRaise("FileNotFoundError")
    ELSE RetVal([kind |-> "data", of |-> images])

\* get_x of the voxel-based and region-based classes.
get_x(obj, present) ==
    IF ~IsNone(obj.x)
    THEN [ret |-> RetVal(obj.x), obj |-> obj]
    ELSE LET listed == get_images(obj, present)
         IN  IF listed.ret.kind = "raise" THEN listed
             ELSE LET loaded == load_data(listed.obj.images.val, present)
                  IN  IF loaded.kind = "raise"
                      THEN [ret |-> loaded, obj |-> listed.obj]
                      ELSE [ret |-> loaded, obj |-> [listed.obj EXCEPT !.x = loaded.val]]

\* A cache test that does not look at recompute_if_exists.
KernelCached_always(obj, recompute_if_exists) == ~IsNone(obj.kernel)

\* self._kernel is not None and not recompute_if_exists
KernelCached(obj, recompute_if_exists) == ~IsNone(obj.kernel) /\ ~recompute_if_exists

\* get_kernel: [ret, obj, kernel_calls], kernel_calls counting the calls of
\* kernel_function.
get_kernel(obj, present, kernel_function, recompute_if_exists) ==
    IF KernelCached(obj, recompute_if_exists)
    THEN [ret |-> RetVal(obj.kernel), obj |-> obj, kernel_calls |-> 0]
    ELSE LET got == IF IsNone(obj.x) THEN get_x(obj, present)
                    ELSE [ret |-> RetVal(obj.x), obj |-> obj]
         IN  IF got.ret.kind = "raise"
             THEN [ret |-> got.ret, obj |-> got.obj, kernel_calls |-> 0]
             ELSE LET kernel == [kind |-> "gram", of |-> got.obj.x, by |-> kernel_function]
                  IN  [ret |-> RetVal(kernel), obj |-> [got.obj EXCEPT !.kernel = kernel],
                       kernel_calls |-> 1]

\* A save_kernel that writes whatever _kernel holds.
save_kernel_unguarded(obj, saved) ==
    [ret |-> RetStr("output_dir/kernel.txt"), saved |-> obj.kernel]

\* save_kernel: [ret, saved].
save_kernel(obj, saved) ==
    IF ~IsNone(obj.kernel)
    THEN [ret |-> RetStr("output_dir/kernel.txt"), saved |-> obj.kernel]
    ELSE [ret |-> RetRaise("Unable to save the kernel"), saved |-> saved]

(***************************************************************************)
(* Inputs of CAPSInput.                                                    *)
(***************************************************************************)
Shapes == {<<r, c>> : r, c \in 1..MaxSubjects}

ImageTypes == {"T1", "fdg", "bold"}

\* None, arrays, a file name, two text rows of two numbers, a number.
PrecomputedKernels ==
    {NoneVal, [kind |-> "str", name |-> "kernel.txt"],
     [kind |-> "list", shape |-> <<2, 2>>], [kind |-> "int", val |-> 5]}
        \cup {[kind |-> "ndarray", shape |-> sh] : sh \in Shapes}

KernelFiles == {NoneVal} \cup {[kind |-> "matrix", shape |-> sh] : sh \in Shapes}

KernelFunctions == {"gram_matrix_linear", "other"}

(***************************************************************************)
(* Specification of CAPSInput: a construction, then any sequence of calls  *)
(* of get_images, get_x, get_kernel and save_kernel on the object.         *)
(***************************************************************************)
InitCaps ==
    /\ call = NoCall
    /\ corr_dir = <<>>
    /\ corr_listing = <<>>
    /\ in_listing = <<>>
    /\ out_exists = FALSE
    /\ out_files = EmptyDir
    /\ in_tree = <<>>
    /\ worker = <<>>
    /\ fileinput_state = 0
    /\ \E n \in 1..MaxSubjects :
       \E present \in SUBSET (1..n) :
       \E kernel_file \in KernelFiles :
           caps = [obj |-> NoneVal, n |-> n, present |-> present,
                   kernel_file |-> kernel_file, saved |-> NoneVal]

CapsFrame ==
    UNCHANGED <<corr_dir, corr_listing, in_listing, out_exists, out_files, in_tree,
                worker, fileinput_state>>

CAPSInputInitCall ==
    /\ IsNone(caps.obj)
    /\ \E cls \in Classes, image_type \in ImageTypes,
          precomputed_kernel \in PrecomputedKernels :
           LET r == CAPSInput_init(cls, image_type, precomputed_kernel, caps.n,
                                   caps.kernel_file)
           IN  /\ call' = [op |-> "__init__", arg |-> precomputed_kernel,
                           image_type |-> image_type, ret |-> r.ret,
                           pre |-> caps, kernel_calls |-> 0]
               /\ caps' = [caps EXCEPT !.obj = r.obj]
    /\ CapsFrame

GetImagesCall ==
    /\ ~IsNone(caps.obj)
    /\ LET r == get_images(caps.obj, caps.present)
       IN  /\ call' = [op |-> "get_images", arg |-> NoneVal, ret |-> r.ret,
                       pre |-> caps, kernel_calls |-> 0]
           /\ caps' = [caps EXCEPT !.obj = r.obj]
    /\ CapsFrame

GetXCall ==
    /\ ~IsNone(caps.obj)
    /\ LET r == get_x(caps.obj, caps.present)
       IN  /\ call' = [op |-> "get_x", arg |-> NoneVal, ret |-> r.ret,
                       pre |-> caps, kernel_calls |-> 0]
           /\ caps' = [caps EXCEPT !.obj = r.obj]
    /\ CapsFrame

GetKernelCall ==
    /\ ~IsNone(caps.obj)
    /\ \E kernel_function \in KernelFunctions, recompute_if_exists \in BOOLEAN :
           LET r == get_kernel(caps.obj, caps.present, kernel_function,
                               recompute_if_exists)
           IN  /\ call' = [op |-> "get_kernel",
                           arg |-> [kernel_function |-> kernel_function,
                                    recompute_if_exists |-> recompute_if_exists],
                           ret |-> r.ret, pre |-> caps, kernel_calls |-> r.kernel_calls]
               /\ caps' = [caps EXCEPT !.obj = r.obj]
    /\ CapsFrame

SaveKernelCall ==
    /\ ~IsNone(caps.obj)
    /\ LET r == save_kernel(caps.obj, caps.saved)
       IN  /\ call' = [op |-> "save_kernel", arg |-> NoneVal, ret |-> r.ret,
                       pre |-> caps, kernel_calls |-> 0]
           /\ caps' = [caps EXCEPT !.saved = r.saved]
    /\ CapsFrame

NextCaps ==
    \/ CAPSInputInitCall
    \/ GetImagesCall
    \/ GetXCall
    \/ GetKernelCall
    \/ SaveKernelCall

SpecCaps == InitCaps /\ [][NextCaps]_vars

(***************************************************************************)
(* Properties of CAPSInput.                                                *)
(***************************************************************************)
\* The files of the subject of path p exist.
ImageExists(p) == p.file.participant \in caps.present

\* C22: whenever get_images returns a list, every path of the list exists;
\* so a call that raised for a missing file is not followed by a call that
\* returns the list while the file is still missing.
C22_ReturnedPathsExist ==
    (call.op = "get_images" /\ call.ret.kind = "list") =>
        \A i \in 1..Len(call.ret.val) : ImageExists(call.ret.val[i])

\* C22 for a call that finds no list stored.
C22_FirstCallChecks ==
    (call.op = "get_images" /\ call.pre.obj.images.kind = "None"
        /\ call.ret.kind = "list") =>
        \A i \in 1..Len(call.ret.val) : ImageExists(call.ret.val[i])

\* A list with a missing file is returned by the call after the one that
\* raised.
C22_WitnessCached ==
    /\ call.op = "get_images"
    /\ call.ret.kind = "list"
    /\ call.pre.obj.images.kind = "list"
    /\ \E i \in 1..Len(call.ret.val) : ~ImageExists(call.ret.val[i])

\* The kernel stored before the call.
KernelBefore == call.pre.obj.kernel

\* C23: save_kernel raises exactly when no kernel is stored, and otherwise
\* writes kernel.txt and leaves the kernel as it is.  get_kernel returns the
\* stored kernel without a call of kernel_function when a kernel is stored
\* and recompute_if_exists is false; otherwise x is loaded if it is not yet
\* and kernel_function is called exactly once on it, its result stored and
\* returned.  When loading x fails, the error is the result, kernel_function
\* is not called and the kernel stays.
C23_KernelProtocol ==
    /\ call.op = "save_kernel" =>
          /\ call.ret.kind = "raise" <=> KernelBefore.kind = "None"
          /\ caps.obj = call.pre.obj
          /\ KernelBefore.kind # "None" => call.ret.kind = "str" /\ caps.saved = KernelBefore
          /\ KernelBefore.kind = "None" => caps.saved = call.pre.saved
    /\ call.op = "get_kernel" =>
          IF KernelBefore.kind # "None" /\ ~call.arg.recompute_if_exists
          THEN /\ call.ret.kind = "value"
               /\ call.ret.val = KernelBefore
               /\ call.kernel_calls = 0
               /\ caps.obj = call.pre.obj
          ELSE IF call.ret.kind = "raise"
          THEN /\ call.pre.obj.x.kind = "None"
               /\ call.kernel_calls = 0
               /\ caps.obj.kernel = KernelBefore
          ELSE /\ call.kernel_calls = 1
               /\ caps.obj.x.kind = "data"
               /\ call.pre.obj.x.kind # "None" => caps.obj.x = call.pre.obj.x
               /\ call.ret.kind = "value"
               /\ call.ret.val = [kind |-> "gram", of |-> caps.obj.x,
                                  by |-> call.arg.kernel_function]
               /\ caps.obj.kernel = call.ret.val

\* A precomputed kernel is stored and x is not loaded: get_kernel with
\* recompute_if_exists loads x and replaces the kernel by one call.
C23_Witness ==
    /\ call.op = "get_kernel"
    /\ call.arg.recompute_if_exists
    /\ KernelBefore.kind = "ndarray"
    /\ call.pre.obj.x.kind = "None"
    /\ call.kernel_calls = 1
    /\ caps.obj.kernel.kind = "gram"

\* save_kernel writes a computed kernel; before, kernel.txt held another.
C23_WitnessSave ==
    /\ call.op = "save_kernel"
    /\ call.ret.kind = "str"
    /\ call.pre.saved.kind # "None"
    /\ caps.saved # call.pre.saved
    /\ caps.saved.kind = "gram"

\* save_kernel raises on an object without kernel.
C23_WitnessNoKernel ==
    /\ call.op = "save_kernel"
    /\ call.ret.kind = "raise"
    /\ call.pre.obj.images.kind = "list"

IsInitWithKernel ==
    /\ call.op = "__init__"
    /\ call.image_type \in {"T1", "fdg", "av45", "pib", "flute", "dwi"}
    /\ call.arg.kind # "None"

FormatError ==
    /\ call.ret.kind = "raise"
    /\ call.ret.val = "Precomputed kernel provided is not in the correct format"

\* C24: a construction with a precomputed_kernel succeeds only for an array
\* of shape (subjects, subjects) or a string file name; any other type is
\* rejected with the 'not in the correct format' exception; after a
\* successful construction the stored kernel has one row and one column per
\* subject.
C24_KernelValidated ==
    IsInitWithKernel =>
        /\ call.ret.kind = "none" =>
              /\ call.arg.kind \in {"ndarray", "str"}
              /\ call.arg.kind = "ndarray" => call.arg.shape = <<caps.n, caps.n>>
              /\ caps.obj.kernel.shape = <<caps.n, caps.n>>
        /\ call.arg.kind \notin {"ndarray", "str"} => FormatError

\* C24 for arrays: accepted exactly with the shape (subjects, subjects),
\* rejected with the format exception otherwise.
C24_ArrayValidated ==
    (IsInitWithKernel /\ call.arg.kind = "ndarray") =>
        IF call.arg.shape = <<caps.n, caps.n>>
        THEN call.ret.kind = "none" /\ caps.obj.kernel = call.arg
        ELSE FormatError /\ caps.obj.kind = "None"

\* A kernel loaded from a file is stored with a shape that is not
\* (subjects, subjects).
C24_WitnessFileShape ==
    /\ IsInitWithKernel
    /\ call.arg.kind = "str"
    /\ call.ret.kind = "none"
    /\ caps.obj.kernel.shape # <<caps.n, caps.n>>

\* A value that is neither array nor string fails inside np.loadtxt.
C24_WitnessOtherType ==
    /\ IsInitWithKernel
    /\ call.arg.kind = "int"
    /\ call.ret.kind = "raise"
    /\ ~FormatError

====
